---- MODULE Spec2Model ----
(***************************************************************************)
(* State-machine model of the spreadsheet ingestion pipeline of the        *)
(* call-quality analytics backend: the Excel parsers (CriteriaSheetParser, *)
(* AISheetParser), the upload orchestrator (UploadService.process_upload)  *)
(* and the remote synchronisation service (NakamaSyncService), all writing *)
(* into one relational store.                                              *)
(*                                                                         *)
(* Text is modelled as a sequence of one-character tokens.  The module     *)
(* language has no Cyrillic string literals, so a Cyrillic letter is       *)
(* written as "_" followed by its Latin transliteration ("_d" is the       *)
(* letter de, "_D" its capital).                                           *)
(***************************************************************************)
EXTENDS Integers, Sequences, FiniteSets, TLC

(***************************************************************************)
(* Text                                                                    *)
(***************************************************************************)

\* str.lower() on one character.
LowerChar(c) ==
    CASE c = "A" -> "a" [] c = "C" -> "c" [] c = "F" -> "f" [] c = "G" -> "g"
      [] c = "I" -> "i" [] c = "L" -> "l" [] c = "N" -> "n" [] c = "Q" -> "q"
      [] c = "R" -> "r" [] c = "D" -> "d" [] c = "W" -> "w" [] c = "E" -> "e"
      [] c = "O" -> "o" [] c = "S" -> "s" [] c = "T" -> "t" [] c = "U" -> "u"
      [] c = "V" -> "v" [] c = "_D" -> "_d" [] c = "_N" -> "_n" [] c = "_A" -> "_a"
      [] OTHER -> c

\* str.lower()
Lower(s) == [i \in 1..Len(s) |-> LowerChar(s[i])]

IsSpace(c) == c = " "

IsDigit(c) == c \in {"0", "1", "2", "3", "4", "5", "6", "7", "8", "9"}

DigitVal(c) ==
    CASE c = "0" -> 0 [] c = "1" -> 1 [] c = "2" -> 2 [] c = "3" -> 3
      [] c = "4" -> 4 [] c = "5" -> 5 [] c = "6" -> 6 [] c = "7" -> 7
      [] c = "8" -> 8 [] c = "9" -> 9

DigitChar(d) == <<"0", "1", "2", "3", "4", "5", "6", "7", "8", "9">>[d + 1]

RECURSIVE LStrip(_)
LStrip(s) == IF s # <<>> /\ IsSpace(Head(s)) THEN LStrip(Tail(s)) ELSE s

RECURSIVE RStrip(_)
RStrip(s) ==
    IF s # <<>> /\ IsSpace(s[Len(s)]) THEN RStrip(SubSeq(s, 1, Len(s) - 1)) ELSE s

\* str.strip()
Strip(s) == RStrip(LStrip(s))

\* Python's `kw in s` on strings.
Contains(s, kw) ==
    \E i \in 0..(Len(s) - Len(kw)) : SubSeq(s, i + 1, i + Len(kw)) = kw

\* Number of leading decimal digits of s.
RECURSIVE LeadingDigits(_)
LeadingDigits(s) ==
    IF s # <<>> /\ IsDigit(Head(s)) THEN 1 + LeadingDigits(Tail(s)) ELSE 0

\* int() of a string of decimal digits.
RECURSIVE DigitsToInt(_)
DigitsToInt(s) ==
    IF s = <<>> THEN 0
    ELSE 10 * DigitsToInt(SubSeq(s, 1, Len(s) - 1)) + DigitVal(s[Len(s)])

\* str() of a non-negative int.
RECURSIVE IntToStr(_)
IntToStr(n) ==
    IF n < 10 THEN <<DigitChar(n)>>
    ELSE IntToStr(n \div 10) \o <<DigitChar(n % 10)>>

(***************************************************************************)
(* Cells.  A spreadsheet cell read by pandas is NaN (empty), an int, a     *)
(* float or a string.  A float is kept in tenths (875 is 87.5); an int is  *)
(* kept as itself.  None is Python's None in parsed output.                *)
(***************************************************************************)

NaN == [t |-> "nan", v |-> 0, s |-> <<>>]

None == [t |-> "none", v |-> 0, s |-> <<>>]

IntCell(n) == [t |-> "int", v |-> n, s |-> <<>>]

FloatCell(tenths) == [t |-> "float", v |-> tenths, s |-> <<>>]

StrCell(str) == [t |-> "str", v |-> 0, s |-> str]

\* pd.notna(value)
NotNa(c) == c.t # "nan"

\* isinstance(value, (int, float))
IsNumber(c) == c.t \in {"int", "float"}

\* int(value) of a number cell: truncation of the float.
IntOf(c) == IF c.t = "int" THEN c.v ELSE c.v \div 10

\* str(value) of a non-NaN cell.
PyStr(c) ==
    CASE c.t = "str" -> c.s
      [] c.t = "int" -> IntToStr(c.v)
      [] c.t = "float" -> IntToStr(c.v \div 10) \o <<".">> \o <<DigitChar(c.v % 10)>>

\* float(text): digits with an optional one-digit fraction, surrounding
\* whitespace ignored; anything else raises ValueError (ok = FALSE).
\* The value is in tenths.
ParseFloatStr(str) ==
    LET s == Strip(str)
        n == LeadingDigits(s)
    IN  IF n = 0 THEN [ok |-> FALSE, v |-> 0]
        ELSE IF n = Len(s) THEN [ok |-> TRUE, v |-> 10 * DigitsToInt(s)]
        ELSE IF Len(s) = n + 2 /\ s[n + 1] = "." /\ IsDigit(s[n + 2])
             THEN [ok |-> TRUE,
                   v |-> 10 * DigitsToInt(SubSeq(s, 1, n)) + DigitVal(s[n + 2])]
        ELSE [ok |-> FALSE, v |-> 0]

\* float(value) of a non-NaN cell, in tenths.
PyFloat(c) ==
    CASE c.t = "int" -> [ok |-> TRUE, v |-> 10 * c.v]
      [] c.t = "float" -> [ok |-> TRUE, v |-> c.v]
      [] c.t = "str" -> ParseFloatStr(c.s)

\* int(value) of a non-NaN cell: int("7") parses, int("x") raises.
PyInt(c) ==
    CASE IsNumber(c) -> [ok |-> TRUE, v |-> IntOf(c)]
      [] c.t = "str" ->
            LET s == Strip(c.s)
            IN  IF s # <<>> /\ LeadingDigits(s) = Len(s)
                THEN [ok |-> TRUE, v |-> DigitsToInt(s)]
                ELSE [ok |-> FALSE, v |-> 0]

(***************************************************************************)
(* Keywords of the source, as text.                                        *)
(***************************************************************************)

kwCriteria == <<"c", "r", "i", "t", "e", "r", "i", "a">>

kwAI == <<"A", "I">>

kwDa == <<"_d", "_a">>

kwReason == <<"r", "e", "a", "s", "o", "n">>

kwQuote == <<"q", "u", "o", "t", "e">>

kwFinal == <<"f", "i", "n", "a", "l">>

kwAverage == <<"a", "v", "e", "r", "a", "g", "e">>

\* meta_keywords, in the dict's insertion order.
meta_keywords ==
    << [keyword |-> <<"_d", "_a", "_t", "_a", " ", "_z", "_v", "_o", "_n", "_k", "_a">>,
        field |-> "call_date"],
       [keyword |-> <<"c", "a", "l", "l", "_", "d", "a", "t", "e">>,
        field |-> "call_date"],
       [keyword |-> <<"_m", "_e", "_n", "_e", "_d", "_zh", "_e", "_r">>,
        field |-> "manager_name"],
       [keyword |-> <<"_f", "_i", "_o", " ", "_m", "_e", "_n", "_e", "_d", "_zh", "_e", "_r", "_a">>,
        field |-> "manager_name"],
       [keyword |-> <<"_d", "_l", "_i", "_t", "_e", "_l", "_soft", "_n", "_o", "_s", "_t", "_soft">>,
        field |-> "duration"],
       [keyword |-> <<"i", "d", " ", "_z", "_v", "_o", "_n", "_k", "_a">>,
        field |-> "call_id"],
       [keyword |-> <<"_n", "_e", "_d", "_e", "_l", "_ya">>,
        field |-> "call_week"],
       [keyword |-> <<"w", "e", "e", "k">>,
        field |-> "call_week"] >>

(***************************************************************************)
(* CriteriaSheetParser                                                     *)
(***************************************************************************)

\* A workbook is a sequence of sheets [name, rows]; a row is a sequence of
\* cells.  xlsx.sheet_names is the sequence of their names.

\* _find_criteria_sheet: index of the first sheet whose lowered name
\* contains 'criteria'; 0 when the loop ends and ValueError is raised.
RECURSIVE FindFrom(_, _)
FindFrom(wb, i) ==
    IF i > Len(wb) THEN 0
    ELSE IF Contains(Lower(wb[i].name), kwCriteria) THEN i
    ELSE FindFrom(wb, i + 1)

find_criteria_sheet(wb) == FindFrom(wb, 1)

\* The criterion of a row attached to the group current before the row.
CriteriaRowStep_above(acc, row) ==
    LET isGroup == NotNa(row[1]) /\ Strip(PyStr(row[1])) # <<>>
        groups1 == IF isGroup
                   THEN Append(acc.groups,
                               [name |-> Strip(PyStr(row[1])),
                                order |-> Len(acc.groups)])
                   ELSE acc.groups
        current1 == IF isGroup THEN Len(groups1) ELSE acc.current_group
        num == IF NotNa(row[2]) THEN PyInt(row[2]) ELSE [ok |-> TRUE, v |-> 0]
    IN  IF ~acc.ok THEN acc
        ELSE IF ~NotNa(row[2])
             THEN [acc EXCEPT !.groups = groups1, !.current_group = current1]
        ELSE IF ~num.ok
             THEN [acc EXCEPT !.ok = FALSE, !.groups = groups1,
                              !.current_group = current1]
        ELSE [ok |-> TRUE,
              groups |-> groups1,
              current_group |-> current1,
              criteria |-> Append(acc.criteria,
                  [group |-> acc.current_group,
                   number |-> num.v,
                   name |-> IF NotNa(row[3]) THEN Strip(PyStr(row[3])) ELSE <<>>,
                   prompt |-> IF NotNa(row[4]) THEN StrCell(Strip(PyStr(row[4])))
                              ELSE None,
                   in_final_score |-> IF NotNa(row[5])
                                      THEN Lower(Strip(PyStr(row[5]))) = kwDa
                                      ELSE FALSE])]

\* One iteration of the loop of CriteriaSheetParser.parse over a row.
\* acc = [ok, groups, criteria, current_group]; current_group is an index
\* into groups, 0 for None.  int() of a non-numeric number cell raises.
CriteriaRowStep(acc, row) ==
    LET isGroup == NotNa(row[1]) /\ Strip(PyStr(row[1])) # <<>>
        groups1 == IF isGroup
                   THEN Append(acc.groups,
                               [name |-> Strip(PyStr(row[1])),
                                order |-> Len(acc.groups)])
                   ELSE acc.groups
        current1 == IF isGroup THEN Len(groups1) ELSE acc.current_group
        num == IF NotNa(row[2]) THEN PyInt(row[2]) ELSE [ok |-> TRUE, v |-> 0]
    IN  IF ~acc.ok THEN acc
        ELSE IF ~NotNa(row[2])
             THEN [acc EXCEPT !.groups = groups1, !.current_group = current1]
        ELSE IF ~num.ok
             THEN [acc EXCEPT !.ok = FALSE, !.groups = groups1,
                              !.current_group = current1]
        ELSE [ok |-> TRUE,
              groups |-> groups1,
              current_group |-> current1,
              criteria |-> Append(acc.criteria,
                  [group |-> current1,
                   number |-> num.v,
                   name |-> IF NotNa(row[3]) THEN Strip(PyStr(row[3])) ELSE <<>>,
                   prompt |-> IF NotNa(row[4]) THEN StrCell(Strip(PyStr(row[4])))
                              ELSE None,
                   in_final_score |-> IF NotNa(row[5])
                                      THEN Lower(Strip(PyStr(row[5]))) = kwDa
                                      ELSE FALSE])]

RECURSIVE CriteriaFold(_, _)
CriteriaFold(acc, rows) ==
    IF rows = <<>> THEN acc
    ELSE CriteriaFold(CriteriaRowStep(acc, Head(rows)), Tail(rows))

\* CriteriaSheetParser.parse: [ok, groups, criteria].  ok = FALSE when the
\* sheet is not found or a row raises.  The first sheet row is the header
\* row pandas consumes.
CriteriaSheetParser_parse(wb) ==
    LET i == find_criteria_sheet(wb)
        acc0 == [ok |-> TRUE, groups |-> <<>>, criteria |-> <<>>,
                 current_group |-> 0]
        r == CriteriaFold(acc0, Tail(wb[i].rows))
    IN  IF i = 0 THEN [ok |-> FALSE, groups |-> <<>>, criteria |-> <<>>]
        ELSE IF wb[i].rows = <<>>
             THEN [ok |-> TRUE, groups |-> <<>>, criteria |-> <<>>]
        ELSE [ok |-> r.ok, groups |-> r.groups, criteria |-> r.criteria]

(***************************************************************************)
(* ColumnMapping.  Column indices are 0-based as in the source; NoCol is   *)
(* None.  meta_columns, criteria_columns and formula_columns are dicts,    *)
(* kept as sequences of entries in insertion order.                        *)
(***************************************************************************)

NoCol == -1

ColumnMapping ==
    [meta_columns |-> <<>>, triples |-> <<>>, formula_columns |-> <<>>,
     duplicate_role |-> {}]

\* dict[key] = value on a sequence of entries keyed by field k.
RECURSIVE IndexOfNum(_, _, _)
IndexOfNum(seq, num, i) ==
    IF i > Len(seq) THEN 0
    ELSE IF seq[i].num = num THEN i
    ELSE IndexOfNum(seq, num, i + 1)

\* add_score_column / add_reason_column / add_quote_column: put col in the
\* role's slot of the criterion's triple, creating the triple on first use;
\* a second column for a slot already filled is DuplicateColumnRoleError
\* scoped to that criterion.
AddRoleColumn(mapping, role, num, col) ==
    LET i == IndexOfNum(mapping.triples, num, 1)
        fresh == [num |-> num, score |-> NoCol, reason |-> NoCol, quote |-> NoCol]
    IN  IF i = 0
        THEN [mapping EXCEPT !.triples = Append(@, [fresh EXCEPT ![role] = col])]
        ELSE IF mapping.triples[i][role] # NoCol
             THEN [mapping EXCEPT !.duplicate_role = @ \cup {num}]
        ELSE [mapping EXCEPT !.triples[i][role] = col]

add_score_column(mapping, num, col) == AddRoleColumn(mapping, "score", num, col)

add_reason_column(mapping, num, col) == AddRoleColumn(mapping, "reason", num, col)

add_quote_column(mapping, num, col) == AddRoleColumn(mapping, "quote", num, col)

\* The triples of all criteria, the excluded ones too.
criteria_columns_all(mapping) == mapping.triples

\* mapping.criteria_columns: the triples of the criteria not excluded by a
\* DuplicateColumnRoleError.
criteria_columns(mapping) ==
    SelectSeq(mapping.triples, LAMBDA t : t.num \notin mapping.duplicate_role)

(***************************************************************************)
(* AISheetParser                                                           *)
(***************************************************************************)

\* The field of the first keyword of meta_keywords contained in the
\* lowered header, "" when none is.
RECURSIVE MetaFieldFrom(_, _)
MetaFieldFrom(header_lower, i) ==
    IF i > Len(meta_keywords) THEN ""
    ELSE IF Contains(header_lower, meta_keywords[i].keyword)
         THEN meta_keywords[i].field
    ELSE MetaFieldFrom(header_lower, i + 1)

\* re.match(r'^(\d+)\s+', text): the length of the digit group when the
\* text starts with digits followed by whitespace, 0 when there is no match.
LeadingNumberMatch(text) ==
    LET n == LeadingDigits(text)
    IN  IF n > 0 /\ Len(text) > n /\ IsSpace(text[n + 1]) THEN n ELSE 0

\* The body of the loop of _build_column_mapping for one column.  The
\* three tests are consecutive `if`s: a header can pass more than one.
MapColumn(mapping, col_idx, header) ==
    LET header_lower == Strip(Lower(PyStr(header)))
        stripped == Strip(PyStr(header))
        field == MetaFieldFrom(header_lower, 1)
        m1 == IF field # ""
              THEN [mapping EXCEPT
                      !.meta_columns = Append(@, [col |-> col_idx, field |-> field])]
              ELSE mapping
        n == LeadingNumberMatch(stripped)
        criteria_num == DigitsToInt(SubSeq(stripped, 1, n))
        m2 == IF n = 0 THEN m1
              ELSE IF Contains(header_lower, kwReason)
                   THEN add_reason_column(m1, criteria_num, col_idx)
              ELSE IF Contains(header_lower, kwQuote)
                   THEN add_quote_column(m1, criteria_num, col_idx)
              ELSE add_score_column(m1, criteria_num, col_idx)
        m3 == IF Contains(header_lower, kwFinal) \/ Contains(header_lower, kwAverage)
              THEN [m2 EXCEPT
                      !.formula_columns = Append(@, [col |-> col_idx, name |-> PyStr(header)])]
              ELSE m2
    IN  IF header.t # "str" \/ header.s = <<>> THEN mapping ELSE m3

RECURSIVE MapColumnsFrom(_, _, _)
MapColumnsFrom(mapping, headers, i) ==
    IF i > Len(headers) THEN mapping
    ELSE MapColumnsFrom(MapColumn(mapping, i - 1, headers[i]), headers, i + 1)

\* _build_column_mapping(headers, criteria).  The criteria argument is
\* never read by the source.
build_column_mapping(headers, criteria) == MapColumnsFrom(ColumnMapping, headers, 1)

\* _parse_score
parse_score(value) ==
    IF ~NotNa(value) THEN None
    ELSE IF IsNumber(value) THEN StrCell(IntToStr(IntOf(value)))
    ELSE StrCell(Strip(PyStr(value)))

\* row.iloc[col_idx]
Iloc(row, col_idx) == row[col_idx + 1]

\* `col and pd.notna(row.iloc[col])`: a column index of None or 0 is falsy.
ColTruthy(col) == col # NoCol /\ col # 0

\* meta: the dict built from mapping.meta_columns; a later column of the
\* same field overwrites an earlier one.  Kept as a function from the
\* fields present to their cells.
RECURSIVE MetaFrom(_, _, _, _)
MetaFrom(meta, row, cols, i) ==
    IF i > Len(cols) THEN meta
    ELSE LET value == Iloc(row, cols[i].col)
             f == cols[i].field
         IN  MetaFrom(IF NotNa(value)
                      THEN [x \in DOMAIN meta \cup {f} |->
                               IF x = f THEN value ELSE meta[x]]
                      ELSE meta,
                      row, cols, i + 1)

EmptyDict == [x \in {} |-> NaN]

\* scores: one CallScore per entry of mapping.criteria_columns, in the
\* dict's order.
CallScore(row, t) ==
    [criteria_number |-> t.num,
     score |-> IF ColTruthy(t.score) THEN parse_score(Iloc(row, t.score)) ELSE None,
     reason |-> IF ColTruthy(t.reason) /\ NotNa(Iloc(row, t.reason))
                THEN StrCell(Strip(PyStr(Iloc(row, t.reason)))) ELSE None,
     quote |-> IF ColTruthy(t.quote) /\ NotNa(Iloc(row, t.quote))
               THEN StrCell(Strip(PyStr(Iloc(row, t.quote)))) ELSE None]

\* final_percent: the loop over formula_columns has no break, each matching
\* non-NaN column assigns.  [ok, v]: ok = FALSE when float() raises; v is
\* None or a float cell.
RECURSIVE FinalFrom(_, _, _, _)
FinalFrom(acc, row, cols, i) ==
    IF i > Len(cols) \/ ~acc.ok THEN acc
    ELSE LET value == Iloc(row, cols[i].col)
             f == PyFloat(value)
         IN  IF Contains(Lower(cols[i].name), kwFinal) /\ NotNa(value)
             THEN FinalFrom(IF f.ok THEN [ok |-> TRUE, v |-> FloatCell(f.v)]
                                    ELSE [ok |-> FALSE, v |-> None],
                            row, cols, i + 1)
             ELSE FinalFrom(acc, row, cols, i + 1)

\* _parse_call_row: [ok, call]; ok = FALSE when the row raises.
parse_call_row(row, mapping, criteria) ==
    LET triples == criteria_columns(mapping)
        final == FinalFrom([ok |-> TRUE, v |-> None], row, mapping.formula_columns, 1)
    IN  [ok |-> final.ok,
         call |-> [metadata |-> MetaFrom(EmptyDict, row, mapping.meta_columns, 1),
                   scores |-> [i \in 1..Len(triples) |-> CallScore(row, triples[i])],
                   final_percent |-> final.v]]

\* pd.read_excel(file_path, sheet_name='AI'): index of the sheet named
\* exactly 'AI', 0 when there is none and the read raises.
RECURSIVE FindAIFrom(_, _)
FindAIFrom(wb, i) ==
    IF i > Len(wb) THEN 0
    ELSE IF wb[i].name = kwAI THEN i
    ELSE FindAIFrom(wb, i + 1)

\* The row loop of AISheetParser.parse (no try/except around a row).
RECURSIVE ParseRowsFrom(_, _, _, _, _)
ParseRowsFrom(acc, rows, mapping, criteria, idx) ==
    IF idx > Len(rows) \/ ~acc.ok THEN acc
    ELSE LET r == parse_call_row(rows[idx], mapping, criteria)
         IN  ParseRowsFrom(IF r.ok THEN [acc EXCEPT !.calls = Append(@, r.call)]
                                   ELSE [acc EXCEPT !.ok = FALSE, !.bad_row = idx],
                           rows, mapping, criteria, idx + 1)

\* AISheetParser.parse(file_path, criteria): [ok, calls, bad_row].
\* Sheet rows 1..3 are the system keys, the group labels and the headers;
\* data starts at sheet row 4 (df index 3).
AISheetParser_parse(wb, criteria) ==
    LET i == FindAIFrom(wb, 1)
        rows == wb[i].rows
        mapping == build_column_mapping(rows[3], criteria)
    IN  IF i = 0 \/ Len(wb[i].rows) < 3
        THEN [ok |-> FALSE, calls |-> <<>>, bad_row |-> 0]
        ELSE ParseRowsFrom([ok |-> TRUE, calls |-> <<>>, bad_row |-> 0],
                           rows, mapping, criteria, 4)

(***************************************************************************)
(* Inputs: the workbooks and remote item sets the runs are given.          *)
(***************************************************************************)

sDa == <<"_D", "_a">>

sNet == <<"_N", "_e", "_t">>

sHi == <<" ", "h", "i", " ">>

sQ == <<"q">>

sAbc == <<"a", "b", "c">>

nameCriteria == <<"C", "r", "i", "t", "e", "r", "i", "a", " ", "1", "0", ".", "1", "2">>

nameOther == <<"D", "a", "t", "a">>

hdrId == StrCell(<<"I", "D", " ", "_z", "_v", "_o", "_n", "_k", "_a">>)

hdrScore1 == StrCell(<<"1", " ", "n", "1">>)

hdrReason1 == StrCell(<<"1", " ", "n", "1", " ", "R", "e", "a", "s", "o", "n">>)

hdrQuote1 == StrCell(<<"1", " ", "n", "1", " ", "Q", "u", "o", "t", "e">>)

hdrReason12 == StrCell(<<"1", "2", " ", "R", "e", "a", "s", "o", "n">>)

hdrFinal == StrCell(<<"F", "I", "N", "A", "L", " ", "A", "v", "e", "r", "a", "g", "e">>)

\* The taxonomy sheet: header row, then [group, number, name, prompt, in final].
TaxHeader == <<StrCell(<<"g">>), StrCell(<<"n">>), StrCell(<<"c">>), StrCell(<<"p">>), StrCell(<<"f">>)>>

TaxTwo ==
    << TaxHeader,
       <<StrCell(<<"G", "1">>), IntCell(1), StrCell(<<"n", "1">>), StrCell(<<"p">>), StrCell(sDa)>>,
       <<NaN, IntCell(2), StrCell(<<"n", "2">>), NaN, StrCell(sNet)>> >>

\* A taxonomy sheet with a group row and no criterion row.
TaxNoCriteria == << TaxHeader, <<StrCell(<<"G", "1">>), NaN, NaN, NaN, NaN>> >>

\* The three header rows of the data sheet; only the third is read.
AIHead(headers) == << [i \in 1..Len(headers) |-> NaN], [i \in 1..Len(headers) |-> NaN], headers >>

Headers5 == <<hdrId, hdrScore1, hdrReason1, hdrQuote1, hdrFinal>>

\* The same columns with the quote column replaced by "12 Reason", a
\* number no criterion of the taxonomy carries.
Headers12 == <<hdrId, hdrScore1, hdrReason1, hdrReason12, hdrFinal>>

Row(id, score, reason, quote, final) == <<id, score, reason, quote, final>>

rowA7 == Row(IntCell(7), IntCell(5), StrCell(sHi), StrCell(sQ), FloatCell(875))

\* Call 7 again with other content: the score cell is now empty.
rowB7 == Row(IntCell(7), NaN, NaN, StrCell(sQ), FloatCell(600))

rowA8 == Row(IntCell(8), StrCell(sDa), NaN, NaN, NaN)

\* A row whose final cell float() rejects.
rowBad == Row(IntCell(9), IntCell(3), NaN, NaN, StrCell(sAbc))

Sheets(tax, headers, rows) ==
    << [name |-> nameCriteria, rows |-> tax],
       [name |-> kwAI, rows |-> AIHead(headers) \o rows] >>

wbFirst == Sheets(TaxTwo, Headers5, <<rowA7, rowA8>>)

wbModified == Sheets(TaxTwo, Headers5, <<rowB7, rowA8>>)

wbSameIdTwice == Sheets(TaxTwo, Headers5, <<rowA7, rowB7>>)

wbBadRow == Sheets(TaxTwo, Headers5, <<rowA7, rowBad, rowA8>>)

wbUnmapped == Sheets(TaxTwo, Headers12, <<rowA7, rowA8>>)

wbNoCriteria == Sheets(TaxNoCriteria, Headers5, <<rowA7>>)

wbNoCriteriaSheet ==
    << [name |-> nameOther, rows |-> TaxTwo],
       [name |-> kwAI, rows |-> AIHead(Headers5) \o <<rowA7>>] >>

wbNoAISheet ==
    << [name |-> nameCriteria, rows |-> TaxTwo],
       [name |-> nameOther, rows |-> AIHead(Headers5) \o <<rowA7>>] >>

Workbooks ==
    {wbFirst, wbModified, wbSameIdTwice, wbBadRow, wbUnmapped, wbNoCriteria,
     wbNoCriteriaSheet, wbNoAISheet}

\* Remote item sets (NakamaAPIClient.get_item_sets with the insights
\* get_insights returns for each).  has_name = FALSE is an insight without
\* the "criterion_name" key.
Insight(name, score) ==
    [has_name |-> TRUE, criterion_name |-> name, score |-> score,
     reasons |-> <<"r">>, quotes |-> <<"q">>]

InsightNoName ==
    [has_name |-> FALSE, criterion_name |-> <<>>, score |-> IntCell(1),
     reasons |-> <<"r">>, quotes |-> <<"q">>]

Item(id, status, insights) == [id |-> id, status |-> status, insights |-> insights]

item7 == Item(7, "processed", <<Insight(<<"n", "1">>, IntCell(5)), Insight(<<"n", "2">>, IntCell(3))>>)

item7Broken ==
    Item(7, "processed",
         <<Insight(<<"n", "1">>, IntCell(5)), InsightNoName, Insight(<<"n", "2">>, IntCell(3))>>)

item9 == Item(9, "processed", <<Insight(<<"n", "1">>, IntCell(4))>>)

item6New == Item(6, "new", <<>>)

ItemSets ==
    { <<item6New, item7, item9>>, <<item7Broken, item9>> }

(***************************************************************************)
(* The store.  A table is the sequence of its rows in insertion order; a   *)
(* row's id is its position.                                               *)
(***************************************************************************)

Projects == {1, 2}

RECURSIVE IndexWhere(_, _, _)
IndexWhere(seq, Test(_), i) ==
    IF i > Len(seq) THEN 0
    ELSE IF Test(seq[i]) THEN i
    ELSE IndexWhere(seq, Test, i + 1)

\* upsert_criteria_group(name) for a project: [groups, id].
upsert_criteria_group(groups, project, g) ==
    LET i == IndexWhere(groups, LAMBDA r : r.project = project /\ r.name = g.name, 1)
    IN  IF i = 0
        THEN [groups |-> Append(groups, [project |-> project, name |-> g.name,
                                         order |-> g.order]),
              id |-> Len(groups) + 1]
        ELSE [groups |-> [groups EXCEPT ![i].order = g.order], id |-> i]

\* The upsert's lookup left out: every taxonomy row is inserted anew.
upsert_criterion_insert(criteria, project, group_id, c) ==
    [criteria |-> Append(criteria,
                         [project |-> project, group_id |-> group_id,
                          number |-> c.number, name |-> c.name,
                          prompt |-> c.prompt,
                          in_final_score |-> c.in_final_score]),
     created |-> TRUE]

\* upsert_criterion(group_id, number, fields): [criteria, created].
upsert_criterion(criteria, project, group_id, c) ==
    LET i == IndexWhere(criteria,
                        LAMBDA r : r.project = project /\ r.group_id = group_id
                                   /\ r.number = c.number, 1)
        row == [project |-> project, group_id |-> group_id, number |-> c.number,
                name |-> c.name, prompt |-> c.prompt,
                in_final_score |-> c.in_final_score]
    IN  IF i = 0 THEN [criteria |-> Append(criteria, row), created |-> TRUE]
        ELSE [criteria |-> [criteria EXCEPT ![i] = row], created |-> FALSE]

RECURSIVE SaveGroupsFrom(_, _, _, _, _)
SaveGroupsFrom(groups, ids, project, parsed_groups, i) ==
    IF i > Len(parsed_groups) THEN [groups |-> groups, ids |-> ids]
    ELSE LET u == upsert_criteria_group(groups, project, parsed_groups[i])
         IN  SaveGroupsFrom(u.groups, Append(ids, u.id), project, parsed_groups, i + 1)

RECURSIVE SaveCriteriaFrom(_, _, _, _, _)
SaveCriteriaFrom(acc, ids, project, parsed_criteria, i) ==
    IF i > Len(parsed_criteria) THEN acc
    ELSE LET c == parsed_criteria[i]
             gid == IF c.group = 0 THEN 0 ELSE ids[c.group]
             u == upsert_criterion(acc.criteria, project, gid, c)
         IN  SaveCriteriaFrom(
                 [criteria |-> u.criteria,
                  created |-> acc.created + (IF u.created THEN 1 ELSE 0),
                  updated |-> acc.updated + (IF u.created THEN 0 ELSE 1)],
                 ids, project, parsed_criteria, i + 1)

\* _save_criteria(project_id, parsed_criteria):
\* [groups, criteria, created, updated].
save_criteria(groups, criteria, project, parsed) ==
    LET g == SaveGroupsFrom(groups, <<>>, project, parsed.groups, 1)
        c == SaveCriteriaFrom([criteria |-> criteria, created |-> 0, updated |-> 0],
                              g.ids, project, parsed.criteria, 1)
    IN  [groups |-> g.groups, criteria |-> c.criteria,
         created |-> c.created, updated |-> c.updated]

\* The re-read left out: the snapshot is taken as empty.
get_project_criteria_skipped(criteria, project) == <<>>

\* _get_project_criteria(project_id)
get_project_criteria(criteria, project) ==
    SelectSeq(criteria, LAMBDA r : r.project = project)

\* The external id of a parsed call: its call id, as text.
ExternalId(call) ==
    IF "call_id" \in DOMAIN call.metadata
    THEN StrCell(PyStr(call.metadata["call_id"]))
    ELSE None

\* The content hash of a call: (final_percent, score set).
ContentHash(call) ==
    <<call.final_percent, {call.scores[i] : i \in 1..Len(call.scores)}>>

\* The existence check left out: no stored row is ever found.
FindCallNever(calls, project, external_id) == 0

\* The project left out of the lookup: a row of any project with the
\* external id is found.
FindCallAnyProject(calls, project, external_id) ==
    IndexWhere(calls, LAMBDA r : r.external_id = external_id, 1)

\* SELECT Call WHERE project_id = ... AND external_id = ...: the position
\* of the first such row among those the session sees, 0 for none.
FindCall(calls, project, external_id) ==
    IndexWhere(calls, LAMBDA r : r.project = project /\ r.external_id = external_id, 1)

\* upsert_call(project_id, external_id, payload): [calls, outcome].
upsert_call(calls, project, external_id, payload) ==
    LET i == FindCall(calls, project, external_id)
        row == [project |-> project, external_id |-> external_id,
                final_percent |-> payload.final_percent,
                scores |-> payload.scores, metadata |-> payload.metadata,
                expected |-> payload.scores]
    IN  IF i = 0 THEN [calls |-> Append(calls, row), outcome |-> "created"]
        ELSE IF ContentHash(calls[i]) = ContentHash(payload)
             THEN [calls |-> calls, outcome |-> "skipped"]
        ELSE [calls |-> [calls EXCEPT ![i] = row], outcome |-> "updated"]

\* _find_criteria(project_id, criterion_name): the id of the project's
\* criterion of that name, 0 for None.
find_criteria(criteria, project, name) ==
    IndexWhere(criteria, LAMBDA r : r.project = project /\ r.name = name, 1)

(***************************************************************************)
(* State                                                                   *)
(***************************************************************************)

\* The number of runs (uploads and syncs) started in one behaviour.
MaxRuns == 2

(***************************************************************************)
(* The snake game (frontend/src/hooks/useSnake.js).  A position is a       *)
(* record [x, y]; the snake is the sequence of its segments, head first.   *)
(* The obstacles array is only ever searched and appended to: it is kept   *)
(* as the set of its positions.                                            *)
(***************************************************************************)

GRID_SIZE == 20

INITIAL_SPEED == 150

SPEED_INCREMENT == 3

MIN_SPEED == 60

INITIAL_OBSTACLES == 5

MAX_OBSTACLES == 15

FOOD_TYPES ==
    << [type |-> "apple", points |-> 10],
       [type |-> "cherry", points |-> 15],
       [type |-> "orange", points |-> 10],
       [type |-> "grape", points |-> 20],
       [type |-> "banana", points |-> 10],
       [type |-> "watermelon", points |-> 25],
       [type |-> "coin", points |-> 30],
       [type |-> "gem", points |-> 50],
       [type |-> "bitcoin", points |-> 100],
       [type |-> "ethereum", points |-> 75],
       [type |-> "star", points |-> 40] >>

DIRECTIONS ==
    [UP |-> [x |-> 0, y |-> -1],
     DOWN |-> [x |-> 0, y |-> 1],
     LEFT |-> [x |-> -1, y |-> 0],
     RIGHT |-> [x |-> 1, y |-> 0]]

OPPOSITE == [UP |-> "DOWN", DOWN |-> "UP", LEFT |-> "RIGHT", RIGHT |-> "LEFT"]

Pos(x, y) == [x |-> x, y |-> y]

\* Every position randomPosition() can return.
GridPositions == {Pos(x, y) : x \in 0..(GRID_SIZE - 1), y \in 0..(GRID_SIZE - 1)}

\* The positions the draws of randomPosition() are taken from here: the
\* cells ahead of the initial snake, two beside its way, and six far cells.
RandomPositions ==
    {Pos(11, 10), Pos(12, 10), Pos(13, 10), Pos(14, 10), Pos(15, 10),
     Pos(13, 9), Pos(12, 11),
     Pos(0, 0), Pos(2, 0), Pos(4, 0), Pos(6, 0), Pos(8, 0), Pos(19, 19)}

\* The indices of FOOD_TYPES the draws of the food type are taken from.
RandomFoodTypes == {1, 9}

\* food = null
NoFood == [type |-> "null"]

\* The test without the snake: only obstacles and food occupy a position.
isPositionOccupied_noSnake(position, snake, obstacles, food) ==
    \/ \E obs \in obstacles : obs.x = position.x /\ obs.y = position.y
    \/ food # NoFood /\ food.x = position.x /\ food.y = position.y

\* isPositionOccupied(position, snake, obstacles = [], food = null)
isPositionOccupied(position, snake, obstacles, food) ==
    \/ \E i \in 1..Len(snake) : snake[i].x = position.x /\ snake[i].y = position.y
    \/ \E obs \in obstacles : obs.x = position.x /\ obs.y = position.y
    \/ food # NoFood /\ food.x = position.x /\ food.y = position.y

\* generateFreePosition(snake, obstacles = [], food = null): the positions
\* the loop can end with.  While the grid has a free cell the loop ends at
\* a free position (a thousand occupied draws in a row are left aside);
\* with no free cell it gives up and returns an occupied one.
generateFreePosition(snake, obstacles, food) ==
    IF \E position \in GridPositions : ~isPositionOccupied(position, snake, obstacles, food)
    THEN {position \in RandomPositions :
             ~isPositionOccupied(position, snake, obstacles, food)}
    ELSE RandomPositions

\* generateFood(snake, obstacles): the foods it can return.
generateFood(snake, obstacles) ==
    {[x |-> position.x, y |-> position.y,
      type |-> FOOD_TYPES[t].type, points |-> FOOD_TYPES[t].points] :
        position \in generateFreePosition(snake, obstacles, NoFood),
        t \in RandomFoodTypes}

\* generateObstacles(count, snake): the arrays it can return.  Each draw is
\* free of the snake and of the earlier draws, so the results are the sets
\* of count positions free of the snake.
generateObstacles(count, snake) ==
    {layout \in SUBSET generateFreePosition(snake, {}, NoFood) :
        Cardinality(layout) = count}

\* getInitialSnake()
getInitialSnake ==
    LET centerX == GRID_SIZE \div 2
        centerY == GRID_SIZE \div 2
    IN  << Pos(centerX, centerY), Pos(centerX - 1, centerY), Pos(centerX - 2, centerY) >>

Procs == {"p1", "p2"}

VARIABLES
    dbGroups,        \* table CriteriaGroup (committed rows)
    dbCriteria,      \* table Criteria
    dbCalls,         \* table Call, each row with its CallScore rows
    pc,              \* per process: the position in process_upload / sync_project
    proj,            \* per process: project_id / local_project_id
    wb,              \* per process: the uploaded workbook (temp_path)
    items,           \* per process: item_sets of the sync
    parsed_criteria, \* per process: process_upload's parsed_criteria
    criteria,        \* per process: process_upload's criteria (the snapshot)
    parsed_calls,    \* per process: process_upload's parsed_calls
    idx,             \* per process: the loop index (record or item), 1-based
    pending,         \* per process: rows added to the AsyncSession, not committed
    result,          \* per process: the counters and errors of the run
    nRuns,           \* runs started so far
    start_store,     \* per process: the tables when the run started
    prev,            \* per process: the run it made before the current one
    snake,           \* useSnake: the segments, head first
    food,            \* useSnake: the food and its type
    obstacles,       \* useSnake: the obstacles
    direction,       \* useSnake: the direction applied at the last step
    nextDirection,   \* useSnake: the direction asked for
    score,           \* useSnake
    highScore,       \* useSnake
    speed,           \* useSnake: the delay between steps
    gameState,       \* useSnake: 'start', 'playing', 'paused', 'gameover'
    obstacleCount,   \* useSnake
    nSteps,          \* ticks of the game loop so far
    nKeys,           \* key presses so far
    nGames,          \* games started so far
    token,           \* ApiClient.token
    user,            \* AuthProvider: user
    isLoading,       \* AuthProvider: isLoading
    pathname,        \* usePathname()
    checkAuthPending,\* the checkAuth effect is due for the current pathname
    checking,        \* per pathname: getMe requests of checkAuth in flight
    loginCall,       \* login: the request it awaits
    refreshCall      \* refreshUser: the request it awaits

game_vars ==
    <<snake, food, obstacles, direction, nextDirection, score, highScore,
      speed, gameState, obstacleCount, nSteps, nKeys, nGames>>

auth_vars ==
    <<token, user, isLoading, pathname, checkAuthPending, checking, loginCall,
      refreshCall>>

vars ==
    <<dbGroups, dbCriteria, dbCalls, pc, proj, wb, items, parsed_criteria,
      criteria, parsed_calls, idx, pending, result, nRuns, start_store, prev,
      snake, food, obstacles, direction, nextDirection, score, highScore,
      speed, gameState, obstacleCount, nSteps, nKeys, nGames,
      token, user, isLoading, pathname, checkAuthPending, checking, loginCall,
      refreshCall>>

store_vars == <<dbGroups, dbCriteria, dbCalls>>

NoResult ==
    [criteria_count |-> 0, success |-> FALSE, error |-> "",
     criteria_created |-> 0, criteria_updated |-> 0,
     calls_created |-> 0, calls_updated |-> 0, calls_skipped_duplicate |-> 0,
     row_errors |-> <<>>, synced |-> 0, errors |-> <<>>]

NoParsed == [ok |-> FALSE, groups |-> <<>>, criteria |-> <<>>]

NoRun == [kind |-> "none", project |-> 0, outcome |-> "", input |-> <<>>,
          store |-> <<>>, result |-> NoResult]

Store == [groups |-> dbGroups, criteria |-> dbCriteria, calls |-> dbCalls]

Resting == {"idle", "done", "failed", "aborted"}

UploadSteps == {"parse_criteria", "save_criteria", "get_criteria", "parse_calls", "save_calls"}

SyncSteps == {"sync_check", "sync_create", "sync_scores", "sync_commit"}

\* The hook as first rendered, f being the food drawn by useState.
InitGame(f) ==
    /\ snake = getInitialSnake
    /\ food = f
    /\ obstacles = {}
    /\ direction = "RIGHT"
    /\ nextDirection = "RIGHT"
    /\ score = 0
    /\ highScore = 0
    /\ speed = INITIAL_SPEED
    /\ gameState = "start"
    /\ obstacleCount = INITIAL_OBSTACLES
    /\ nSteps = 0
    /\ nKeys = 0
    /\ nGames = 0

\* The food of the page the ingestion runs leave untouched.
FirstFood == [x |-> 11, y |-> 10, type |-> "apple", points |-> 10]

InitIngestion ==
    /\ dbGroups = <<>>
    /\ dbCriteria = <<>>
    /\ dbCalls = <<>>
    /\ pc = [p \in Procs |-> "idle"]
    /\ proj = [p \in Procs |-> 0]
    /\ wb = [p \in Procs |-> <<>>]
    /\ items = [p \in Procs |-> <<>>]
    /\ parsed_criteria = [p \in Procs |-> NoParsed]
    /\ criteria = [p \in Procs |-> <<>>]
    /\ parsed_calls = [p \in Procs |-> <<>>]
    /\ idx = [p \in Procs |-> 0]
    /\ pending = [p \in Procs |-> <<>>]
    /\ result = [p \in Procs |-> NoResult]
    /\ nRuns = 0
    /\ start_store = [p \in Procs |-> <<>>]
    /\ prev = [p \in Procs |-> NoRun]

PUBLIC_PATHS == {"/login", "/register", "/forgot-password"}

Pathnames == {"/login", "/executive", "/my"}

NoToken == ""

NoUser == [id |-> 0, role |-> ""]

\* AuthProvider as first rendered on the page path, stored being the
\* access_token of localStorage read by the ApiClient constructor.
InitAuth(stored, path) ==
    /\ token = stored
    /\ user = NoUser
    /\ isLoading = TRUE
    /\ pathname = path
    /\ checkAuthPending = TRUE
    /\ checking = [q \in Pathnames |-> 0]
    /\ loginCall = "idle"
    /\ refreshCall = "idle"

Init == InitIngestion /\ InitGame(FirstFood) /\ InitAuth(NoToken, "/login")

\* The run of p ends: the request's session is closed, which rolls back
\* what it has not committed.
EndRun(p, outcome, res) ==
    /\ pc' = [pc EXCEPT ![p] = outcome]
    /\ result' = [result EXCEPT ![p] = res]
    /\ pending' = [pending EXCEPT ![p] = <<>>]

IsUpload(p) == wb[p] # <<>>

IsSync(p) == items[p] # <<>>

\* What p did last, remembered when it starts its next run.
LastRun(p) ==
    IF pc[p] = "idle" THEN NoRun
    ELSE [kind |-> IF IsUpload(p) THEN "upload" ELSE "sync",
          project |-> proj[p], outcome |-> pc[p],
          input |-> IF IsUpload(p) THEN wb[p] ELSE items[p],
          store |-> start_store[p], result |-> result[p]]

(***************************************************************************)
(* UploadService.process_upload                                            *)
(***************************************************************************)

\* The upload endpoint calls process_upload(file, project_id); the file is
\* saved to temp_path.
StartUpload(p) ==
    /\ pc[p] \in Resting
    /\ nRuns < MaxRuns
    /\ \E project \in Projects, w \in Workbooks :
          /\ proj' = [proj EXCEPT ![p] = project]
          /\ wb' = [wb EXCEPT ![p] = w]
    /\ nRuns' = nRuns + 1
    /\ pc' = [pc EXCEPT ![p] = "parse_criteria"]
    /\ items' = [items EXCEPT ![p] = <<>>]
    /\ parsed_criteria' = [parsed_criteria EXCEPT ![p] = NoParsed]
    /\ criteria' = [criteria EXCEPT ![p] = <<>>]
    /\ parsed_calls' = [parsed_calls EXCEPT ![p] = <<>>]
    /\ idx' = [idx EXCEPT ![p] = 0]
    /\ pending' = [pending EXCEPT ![p] = <<>>]
    /\ result' = [result EXCEPT ![p] = NoResult]
    /\ start_store' = [start_store EXCEPT ![p] = Store]
    /\ prev' = [prev EXCEPT ![p] = LastRun(p)]
    /\ UNCHANGED store_vars
    /\ UNCHANGED <<game_vars, auth_vars>>

\* parsed_criteria = criteria_parser.parse(temp_path); an exception leaves
\* process_upload through its finally.
UploadParseCriteria(p) ==
    /\ pc[p] = "parse_criteria"
    /\ LET r == CriteriaSheetParser_parse(wb[p])
       IN  IF r.ok
           THEN /\ parsed_criteria' = [parsed_criteria EXCEPT ![p] = r]
                /\ pc' = [pc EXCEPT ![p] = "save_criteria"]
                /\ UNCHANGED <<result, pending>>
           ELSE /\ EndRun(p, "failed",
                          [result[p] EXCEPT !.error = "ValueError"])
                /\ UNCHANGED parsed_criteria
    /\ UNCHANGED <<store_vars, proj, wb, items, criteria, parsed_calls, idx,
                   nRuns, start_store, prev>>
    /\ UNCHANGED <<game_vars, auth_vars>>

\* await self._save_criteria(project_id, parsed_criteria)
UploadSaveCriteria(p) ==
    /\ pc[p] = "save_criteria"
    /\ LET r == save_criteria(dbGroups, dbCriteria, proj[p], parsed_criteria[p])
       IN  /\ dbGroups' = r.groups
           /\ dbCriteria' = r.criteria
           /\ result' = [result EXCEPT ![p].criteria_created = r.created,
                                       ![p].criteria_updated = r.updated]
    /\ pc' = [pc EXCEPT ![p] = "get_criteria"]
    /\ UNCHANGED <<dbCalls, proj, wb, items, parsed_criteria, criteria,
                   parsed_calls, idx, pending, nRuns, start_store, prev>>
    /\ UNCHANGED <<game_vars, auth_vars>>

\* criteria = await self._get_project_criteria(project_id)
UploadGetCriteria(p) ==
    /\ pc[p] = "get_criteria"
    /\ criteria' = [criteria EXCEPT ![p] = get_project_criteria(dbCriteria, proj[p])]
    /\ pc' = [pc EXCEPT ![p] = "parse_calls"]
    /\ UNCHANGED <<store_vars, proj, wb, items, parsed_criteria, parsed_calls,
                   idx, pending, result, nRuns, start_store, prev>>
    /\ UNCHANGED <<game_vars, auth_vars>>

\* parsed_calls = ai_parser.parse(temp_path, criteria)
UploadParseCalls(p) ==
    /\ pc[p] = "parse_calls"
    /\ LET r == AISheetParser_parse(wb[p], criteria[p])
       IN  IF r.ok
           THEN /\ parsed_calls' = [parsed_calls EXCEPT ![p] = r.calls]
                /\ idx' = [idx EXCEPT ![p] = 1]
                /\ pc' = [pc EXCEPT ![p] = "save_calls"]
                /\ UNCHANGED <<result, pending>>
           ELSE /\ EndRun(p, "failed",
                          [result[p] EXCEPT !.error = "ValueError"])
                /\ UNCHANGED <<parsed_calls, idx>>
    /\ UNCHANGED <<store_vars, proj, wb, items, parsed_criteria, criteria,
                   nRuns, start_store, prev>>
    /\ UNCHANGED <<game_vars, auth_vars>>

\* The tally without the skipped records.
Tally_created_updated(res, outcome) ==
    CASE outcome = "created" -> [res EXCEPT !.calls_created = @ + 1]
      [] outcome = "updated" -> [res EXCEPT !.calls_updated = @ + 1]
      [] outcome = "skipped" -> res

Tally(res, outcome) ==
    CASE outcome = "created" -> [res EXCEPT !.calls_created = @ + 1]
      [] outcome = "updated" -> [res EXCEPT !.calls_updated = @ + 1]
      [] outcome = "skipped" -> [res EXCEPT !.calls_skipped_duplicate = @ + 1]

\* One iteration of _save_calls(project_id, parsed_calls): the upsert of
\* one record, committed in its own transaction.
UploadSaveCall(p) ==
    /\ pc[p] = "save_calls"
    /\ idx[p] <= Len(parsed_calls[p])
    /\ LET call == parsed_calls[p][idx[p]]
           u == upsert_call(dbCalls, proj[p], ExternalId(call), call)
       IN  /\ dbCalls' = u.calls
           /\ result' = [result EXCEPT ![p] = Tally(@, u.outcome)]
    /\ idx' = [idx EXCEPT ![p] = @ + 1]
    /\ UNCHANGED <<dbGroups, dbCriteria, pc, proj, wb, items, parsed_criteria,
                   criteria, parsed_calls, pending, nRuns, start_store, prev>>
    /\ UNCHANGED <<game_vars, auth_vars>>

\* return UploadResult(criteria_count=..., calls_count=saved, success=True)
UploadReturn(p) ==
    /\ pc[p] = "save_calls"
    /\ idx[p] > Len(parsed_calls[p])
    /\ EndRun(p, "done",
              [result[p] EXCEPT !.criteria_count = Len(parsed_criteria[p].criteria),
                                !.success = TRUE])
    /\ UNCHANGED <<store_vars, proj, wb, items, parsed_criteria, criteria,
                   parsed_calls, idx, nRuns, start_store, prev>>
    /\ UNCHANGED <<game_vars, auth_vars>>

(***************************************************************************)
(* NakamaSyncService                                                       *)
(***************************************************************************)

\* The rows a session sees: the committed ones and its own flushed ones.
Visible(p) == dbCalls \o pending[p]

\* The loop `for insight in insights` of _sync_call from insight i on:
\* [ok, scores].  insight["criterion_name"] raises KeyError on an insight
\* without the key (ok = FALSE, the scores added so far stay in the
\* session); an insight whose criterion is not found adds nothing.
RECURSIVE ScoresFrom(_, _, _, _, _)
ScoresFrom(scores, project, insights, db_criteria, i) ==
    IF i > Len(insights) THEN [ok |-> TRUE, scores |-> scores]
    ELSE IF ~insights[i].has_name THEN [ok |-> FALSE, scores |-> scores]
    ELSE LET cid == find_criteria(db_criteria, project, insights[i].criterion_name)
             call_score == [criteria_id |-> cid,
                            score |-> IF NotNa(insights[i].score)
                                      THEN PyStr(insights[i].score) ELSE <<>>,
                            reason |-> insights[i].reasons,
                            quote |-> insights[i].quotes]
         IN  ScoresFrom(IF cid # 0 THEN Append(scores, call_score) ELSE scores,
                        project, insights, db_criteria, i + 1)

\* The CallScore rows of an item when every insight that names a criterion
\* is stored: the record's complete score set.
CompleteScores(project, insights, db_criteria) ==
    ScoresFrom(<<>>, project, SelectSeq(insights, LAMBDA x : x.has_name),
               db_criteria, 1).scores

\* sync_project is called for a project; get_item_sets returns the items.
StartSync(p) ==
    /\ pc[p] \in Resting
    /\ nRuns < MaxRuns
    /\ \E project \in Projects, its \in ItemSets :
          /\ proj' = [proj EXCEPT ![p] = project]
          /\ items' = [items EXCEPT ![p] = its]
    /\ nRuns' = nRuns + 1
    /\ pc' = [pc EXCEPT ![p] = "sync_check"]
    /\ wb' = [wb EXCEPT ![p] = <<>>]
    /\ parsed_criteria' = [parsed_criteria EXCEPT ![p] = NoParsed]
    /\ criteria' = [criteria EXCEPT ![p] = <<>>]
    /\ parsed_calls' = [parsed_calls EXCEPT ![p] = <<>>]
    /\ idx' = [idx EXCEPT ![p] = 1]
    /\ pending' = [pending EXCEPT ![p] = <<>>]
    /\ result' = [result EXCEPT ![p] = NoResult]
    /\ start_store' = [start_store EXCEPT ![p] = Store]
    /\ prev' = [prev EXCEPT ![p] = LastRun(p)]
    /\ UNCHANGED store_vars
    /\ UNCHANGED <<game_vars, auth_vars>>

\* The head of the loop of sync_project and the existence check of
\* _sync_call: an item that is not 'processed' is passed over; an item
\* whose call the session already sees returns at once and counts as synced.
SyncCheck(p) ==
    /\ pc[p] = "sync_check"
    /\ idx[p] <= Len(items[p])
    /\ LET item == items[p][idx[p]]
           existing == FindCall(Visible(p), proj[p], StrCell(IntToStr(item.id)))
       IN  IF item.status # "processed"
           THEN /\ idx' = [idx EXCEPT ![p] = @ + 1]
                /\ UNCHANGED <<pc, result>>
           ELSE IF existing # 0
           THEN /\ idx' = [idx EXCEPT ![p] = @ + 1]
                /\ result' = [result EXCEPT ![p].synced = @ + 1]
                /\ UNCHANGED pc
           ELSE /\ pc' = [pc EXCEPT ![p] = "sync_create"]
                /\ UNCHANGED <<idx, result>>
    /\ UNCHANGED <<store_vars, proj, wb, items, parsed_criteria, criteria,
                   parsed_calls, pending, nRuns, start_store, prev>>
    /\ UNCHANGED <<game_vars, auth_vars>>

\* After get_insights and get_crm_data: call = Call(...); self.db.add(call);
\* await self.db.flush().  The row is in the session, not committed.
SyncCreate(p) ==
    /\ pc[p] = "sync_create"
    /\ LET item == items[p][idx[p]]
           call == [project |-> proj[p],
                    external_id |-> StrCell(IntToStr(item.id)),
                    final_percent |-> None,
                    scores |-> <<>>,
                    metadata |-> EmptyDict,
                    expected |-> CompleteScores(proj[p], item.insights, dbCriteria)]
       IN  pending' = [pending EXCEPT ![p] = Append(@, call)]
    /\ pc' = [pc EXCEPT ![p] = "sync_scores"]
    /\ UNCHANGED <<store_vars, proj, wb, items, parsed_criteria, criteria,
                   parsed_calls, idx, result, nRuns, start_store, prev>>
    /\ UNCHANGED <<game_vars, auth_vars>>

\* The score loop of _sync_call.  When it raises, the except of
\* sync_project records a SyncError and goes on to the next item; nothing
\* rolls the session back.
SyncScores(p) ==
    /\ pc[p] = "sync_scores"
    /\ LET item == items[p][idx[p]]
           r == ScoresFrom(<<>>, proj[p], item.insights, dbCriteria, 1)
           n == Len(pending[p])
       IN  /\ pending' = [pending EXCEPT ![p][n].scores = r.scores]
           /\ IF r.ok
              THEN /\ pc' = [pc EXCEPT ![p] = "sync_commit"]
                   /\ UNCHANGED <<idx, result>>
              ELSE /\ pc' = [pc EXCEPT ![p] = "sync_check"]
                   /\ idx' = [idx EXCEPT ![p] = @ + 1]
                   /\ result' = [result EXCEPT ![p].errors = Append(@, item.id)]
    /\ UNCHANGED <<store_vars, proj, wb, items, parsed_criteria, criteria,
                   parsed_calls, nRuns, start_store, prev>>
    /\ UNCHANGED <<game_vars, auth_vars>>

\* await self.db.commit(): everything the session holds becomes visible.
SyncCommit(p) ==
    /\ pc[p] = "sync_commit"
    /\ dbCalls' = dbCalls \o pending[p]
    /\ pending' = [pending EXCEPT ![p] = <<>>]
    /\ result' = [result EXCEPT ![p].synced = @ + 1]
    /\ idx' = [idx EXCEPT ![p] = @ + 1]
    /\ pc' = [pc EXCEPT ![p] = "sync_check"]
    /\ UNCHANGED <<dbGroups, dbCriteria, proj, wb, items, parsed_criteria,
                   criteria, parsed_calls, nRuns, start_store, prev>>
    /\ UNCHANGED <<game_vars, auth_vars>>

\* return SyncResult(synced=synced, errors=errors)
SyncReturn(p) ==
    /\ pc[p] = "sync_check"
    /\ idx[p] > Len(items[p])
    /\ EndRun(p, "done", [result[p] EXCEPT !.success = TRUE])
    /\ UNCHANGED <<store_vars, proj, wb, items, parsed_criteria, criteria,
                   parsed_calls, idx, nRuns, start_store, prev>>
    /\ UNCHANGED <<game_vars, auth_vars>>

\* The task running p is cancelled, or its process dies, at an await: the
\* run stops where it is and its uncommitted rows are rolled back.
Abort(p) ==
    /\ pc[p] \in UploadSteps \cup SyncSteps
    /\ EndRun(p, "aborted", result[p])
    /\ parsed_criteria' = [parsed_criteria EXCEPT ![p] = NoParsed]
    /\ criteria' = [criteria EXCEPT ![p] = <<>>]
    /\ parsed_calls' = [parsed_calls EXCEPT ![p] = <<>>]
    /\ idx' = [idx EXCEPT ![p] = 0]
    /\ UNCHANGED <<store_vars, proj, wb, items, nRuns, start_store, prev>>
    /\ UNCHANGED <<game_vars, auth_vars>>

Step(p) ==
    \/ StartUpload(p)
    \/ UploadParseCriteria(p)
    \/ UploadSaveCriteria(p)
    \/ UploadGetCriteria(p)
    \/ UploadParseCalls(p)
    \/ UploadSaveCall(p)
    \/ UploadReturn(p)
    \/ StartSync(p)
    \/ SyncCheck(p)
    \/ SyncCreate(p)
    \/ SyncScores(p)
    \/ SyncCommit(p)
    \/ SyncReturn(p)
    \/ Abort(p)

\* Runs one after the other: a single worker takes the uploads and syncs.
Next == Step("p1")

Spec == Init /\ [][Next]_vars

\* Two workers: runs overlap, of the same project or of different ones.
NextConcurrent == \E p \in Procs : Step(p)

SpecConcurrent == Init /\ [][NextConcurrent]_vars

(***************************************************************************)
(* Properties                                                              *)
(***************************************************************************)

\* p has completed an upload of the workbook it had completed just before,
\* into the same project.
ReingestedUnchanged(p) ==
    /\ pc[p] = "done"
    /\ IsUpload(p)
    /\ prev[p].kind = "upload"
    /\ prev[p].outcome = "done"
    /\ prev[p].project = proj[p]
    /\ prev[p].input = wb[p]

\* No two records of the run of p carry one external id with different content.
SameIdSameContent(p) ==
    \A i, j \in 1..Len(parsed_calls[p]) :
        ExternalId(parsed_calls[p][i]) = ExternalId(parsed_calls[p][j])
            => ContentHash(parsed_calls[p][i]) = ContentHash(parsed_calls[p][j])

C2_OneCallPerExternalId ==
    \A i, j \in 1..Len(dbCalls) :
        (dbCalls[i].project = dbCalls[j].project
            /\ dbCalls[i].external_id = dbCalls[j].external_id) => i = j

\* C2 witness: after a first ingestion, modified data for a stored external
\* id has been ingested into the same project and the run has completed.
C2_Witness ==
    \E p \in Procs :
        /\ pc[p] = "done"
        /\ prev[p].outcome = "done"
        /\ prev[p].project = proj[p]
        /\ result[p].calls_updated > 0
        /\ Len(dbCalls) >= 2

\* The score, reason and quote values stored for a key are those of the
\* record, and the key is stored once.
StoredExactly(calls, project, external_id, call) ==
    /\ \E i \in 1..Len(calls) :
          calls[i].project = project /\ calls[i].external_id = external_id
    /\ \A i \in 1..Len(calls) :
          (calls[i].project = project /\ calls[i].external_id = external_id)
              => /\ calls[i].scores = call.scores
                 /\ calls[i].final_percent = call.final_percent

\* A stored call of the project has the external id and another content
\* hash than the record.
StoredAndChanged(project, external_id, call) ==
    \E i \in 1..Len(dbCalls) :
        /\ dbCalls[i].project = project
        /\ dbCalls[i].external_id = external_id
        /\ ContentHash(dbCalls[i]) # ContentHash(call)

\* The record _sync_call builds from the item p is at.
SyncRecord(p) ==
    [final_percent |-> None,
     scores |-> CompleteScores(proj[p], items[p][idx[p]].insights, dbCriteria)]

\* C3: when a record is taken whose external id is stored for the project
\* with a different content hash (a row of an upload, an item of a sync),
\* the stored scores (score, reason, quote of every entry) are afterwards
\* exactly the fresh record's, no entry of the previous version remains,
\* and an upload counts one more calls_updated and creates nothing.
C3_UpdateOverwrites ==
    [][\A p \in Procs :
          /\ (/\ pc[p] = "save_calls"
              /\ idx[p] <= Len(parsed_calls[p])
              /\ idx'[p] = idx[p] + 1
              /\ StoredAndChanged(proj[p], ExternalId(parsed_calls[p][idx[p]]),
                                  parsed_calls[p][idx[p]]))
             => /\ result'[p].calls_updated = result[p].calls_updated + 1
                /\ result'[p].calls_created = result[p].calls_created
                /\ Len(dbCalls') = Len(dbCalls)
                /\ StoredExactly(dbCalls', proj[p],
                                 ExternalId(parsed_calls[p][idx[p]]),
                                 parsed_calls[p][idx[p]])
          /\ (/\ pc[p] = "sync_check"
              /\ idx[p] <= Len(items[p])
              /\ idx'[p] = idx[p] + 1
              /\ items[p][idx[p]].status = "processed"
              /\ StoredAndChanged(proj[p], StrCell(IntToStr(items[p][idx[p]].id)),
                                  SyncRecord(p)))
             => /\ Len(dbCalls') = Len(dbCalls)
                /\ StoredExactly(dbCalls', proj[p],
                                 StrCell(IntToStr(items[p][idx[p]].id)),
                                 SyncRecord(p))]_vars

InRun(p) == pc[p] \in UploadSteps \cup SyncSteps

\* C4: runs of one project never overlap, and concurrent runs carrying the
\* same external id leave one stored call for it.
C4_SameProjectSerialized ==
    /\ \A p, q \in Procs :
          (p # q /\ InRun(p) /\ InRun(q)) => proj[p] # proj[q]
    /\ \A i, j \in 1..Len(dbCalls) :
          (i # j /\ dbCalls[i].project = dbCalls[j].project)
              => dbCalls[i].external_id # dbCalls[j].external_id

\* C5: every stored call has the complete score set of the record that
\* wrote it.
C5_NoPartialScoreSet ==
    \A i \in 1..Len(dbCalls) : dbCalls[i].scores = dbCalls[i].expected

\* The workbook has a fatal fault: no taxonomy sheet, no data sheet, or a
\* taxonomy sheet without a criterion.
FatalWorkbook(w) ==
    \/ find_criteria_sheet(w) = 0
    \/ FindAIFrom(w, 1) = 0
    \/ /\ CriteriaSheetParser_parse(w).ok
       /\ CriteriaSheetParser_parse(w).criteria = <<>>

RowsUntouched(p) ==
    /\ result[p].calls_created = 0
    /\ result[p].calls_updated = 0
    /\ result[p].calls_skipped_duplicate = 0
    /\ result[p].row_errors = <<>>
    /\ dbCalls = start_store[p].calls

\* C6: an upload of a workbook with a fatal fault never reaches the row
\* loop: no call is created, updated or skipped, row_errors stays empty, and
\* the run ends with one top-level error.
C6_FatalAbortsBeforeRows ==
    \A p \in Procs :
        (IsUpload(p) /\ FatalWorkbook(wb[p])) =>
            /\ pc[p] \notin {"save_calls", "done"}
            /\ RowsUntouched(p)
            /\ pc[p] = "failed" => result[p].error # ""

\* The data rows of the workbook's AI sheet that _parse_call_row rejects,
\* as 1-based sheet row numbers in sheet order.
RECURSIVE BadRowsFrom(_, _, _)
BadRowsFrom(rows, mapping, i) ==
    IF i > Len(rows) THEN <<>>
    ELSE (IF parse_call_row(rows[i], mapping, <<>>).ok THEN <<>> ELSE <<i>>)
         \o BadRowsFrom(rows, mapping, i + 1)

BadRows(w) ==
    LET rows == w[FindAIFrom(w, 1)].rows
    IN  BadRowsFrom(rows, build_column_mapping(rows[3], <<>>), 4)

\* The workbook has both sheets, its taxonomy parses to at least one
\* criterion, and some data row is malformed.
HasBadRow(w) ==
    /\ ~FatalWorkbook(w)
    /\ CriteriaSheetParser_parse(w).ok
    /\ BadRows(w) # <<>>

\* C7: an upload of a workbook with a malformed row completes; row_errors
\* lists the malformed rows by 1-based row number, and every other row,
\* before or after, has its call stored.
C7_BadRowDoesNotAbort ==
    \A p \in Procs :
        (IsUpload(p) /\ HasBadRow(wb[p]) /\ pc[p] \in {"done", "failed"}) =>
            /\ pc[p] = "done"
            /\ [i \in 1..Len(result[p].row_errors) |-> result[p].row_errors[i].row_number]
                  = BadRows(wb[p])
            /\ LET rows == wb[p][FindAIFrom(wb[p], 1)].rows
                   mapping == build_column_mapping(rows[3], <<>>)
               IN  \A i \in 4..Len(rows) :
                      parse_call_row(rows[i], mapping, <<>>).ok =>
                          StoredExactly(dbCalls, proj[p],
                                        ExternalId(parse_call_row(rows[i], mapping, <<>>).call),
                                        parse_call_row(rows[i], mapping, <<>>).call)

\* The criterion numbers of the taxonomy snapshot of the run of p.
SnapshotNumbers(p) == {criteria[p][i].number : i \in 1..Len(criteria[p])}

RecordsBuilt(p) == IsUpload(p) /\ pc[p] \in {"save_calls", "done"}

\* C9: every score entry of every record built carries the number of a
\* criterion of the run's snapshot and a score: a criterion without a
\* mapped score column, or with an empty score cell, has no entry.
C9_EntriesWithinSnapshot ==
    \A p \in Procs :
        (RecordsBuilt(p) /\ ~FatalWorkbook(wb[p])) =>
            \A i \in 1..Len(parsed_calls[p]) :
                \A j \in 1..Len(parsed_calls[p][i].scores) :
                    /\ parsed_calls[p][i].scores[j].criteria_number \in SnapshotNumbers(p)
                    /\ parsed_calls[p][i].scores[j].score # None

\* The columns of the header row that start with a number and whitespace,
\* as [col, num].
NumberedColumns(headers) ==
    {[col |-> i - 1,
      num |-> DigitsToInt(SubSeq(Strip(PyStr(headers[i])), 1,
                                 LeadingNumberMatch(Strip(PyStr(headers[i])))))] :
        i \in {k \in 1..Len(headers) :
                  /\ headers[k].t = "str"
                  /\ LeadingNumberMatch(Strip(PyStr(headers[k]))) > 0}}

MappedColumns(mapping) ==
    UNION {{mapping.triples[i].score, mapping.triples[i].reason,
            mapping.triples[i].quote} \ {NoCol} : i \in 1..Len(mapping.triples)}

\* C10: a header whose leading number is no criterion of the snapshot is
\* left out of the column mapping, and the ingestion of the sheet completes.
C10_UnknownNumberUnmapped ==
    \A p \in Procs :
        (IsUpload(p) /\ pc[p] \in {"save_calls", "done", "failed"}
            /\ parsed_criteria[p].ok /\ ~FatalWorkbook(wb[p])) =>
            LET headers == wb[p][FindAIFrom(wb[p], 1)].rows[3]
                mapping == build_column_mapping(headers, criteria[p])
                unknown == {c \in NumberedColumns(headers) : c.num \notin SnapshotNumbers(p)}
            IN  /\ \A c \in unknown : c.col \notin MappedColumns(mapping)
                /\ (unknown # {} /\ BadRows(wb[p]) = <<>>) => pc[p] # "failed"

(***************************************************************************)
(* Whole runs as functions of the store they start from, for comparing a   *)
(* run that was stopped and made again with a run made once.               *)
(***************************************************************************)

RECURSIVE UpsertAll(_, _, _, _, _)
UpsertAll(calls, project, records, i, k) ==
    IF i > k THEN calls
    ELSE UpsertAll(upsert_call(calls, project, ExternalId(records[i]), records[i]).calls,
                   project, records, i + 1, k)

\* What process_upload does when started on the store st: whether it gets
\* past the taxonomy, the taxonomy it leaves, and the records it builds
\* (<<>> when it fails before the row loop).
UploadPlan(st, project, w) ==
    LET pcrit == CriteriaSheetParser_parse(w)
        saved == save_criteria(st.groups, st.criteria, project, pcrit)
        r == AISheetParser_parse(w, get_project_criteria(saved.criteria, project))
    IN  [ok |-> pcrit.ok,
         groups |-> saved.groups,
         criteria |-> saved.criteria,
         records |-> IF pcrit.ok /\ r.ok THEN r.calls ELSE <<>>]

\* The store process_upload leaves when started on st and stopped after
\* stage k: 0 is before the taxonomy is saved, 1 after it, 1 + n after the
\* n-th record.
StoreAfter(st, project, plan, k) ==
    IF k = 0 \/ ~plan.ok THEN st
    ELSE [groups |-> plan.groups,
          criteria |-> plan.criteria,
          calls |-> UpsertAll(st.calls, project, plan.records, 1, k - 1)]

\* _sync_call on one item, as a function of what the session sees:
\* acc = [calls, pending].
SyncItem(acc, project, item, db_criteria) ==
    LET ext == StrCell(IntToStr(item.id))
        r == ScoresFrom(<<>>, project, item.insights, db_criteria, 1)
        call == [project |-> project, external_id |-> ext, final_percent |-> None,
                 scores |-> r.scores, metadata |-> EmptyDict,
                 expected |-> CompleteScores(project, item.insights, db_criteria)]
    IN  IF item.status # "processed" THEN acc
        ELSE IF FindCall(acc.calls \o acc.pending, project, ext) # 0 THEN acc
        ELSE IF r.ok
             THEN [calls |-> acc.calls \o acc.pending \o <<call>>, pending |-> <<>>]
        ELSE [calls |-> acc.calls, pending |-> Append(acc.pending, call)]

RECURSIVE SyncFold(_, _, _, _, _, _)
SyncFold(acc, project, its, db_criteria, i, k) ==
    IF i > k THEN acc
    ELSE SyncFold(SyncItem(acc, project, its[i], db_criteria), project, its,
                  db_criteria, i + 1, k)

\* The store sync_project leaves when started on st and stopped after k items.
SyncAfter(st, project, its, k) ==
    [st EXCEPT !.calls =
        SyncFold([calls |-> st.calls, pending |-> <<>>], project, its,
                 st.criteria, 1, k).calls]

\* The stores a run of p can leave when it stops between two rows.
RowBoundaryStores(p) ==
    IF IsUpload(p)
    THEN LET plan == UploadPlan(start_store[p], proj[p], wb[p])
         IN  {StoreAfter(start_store[p], proj[p], plan, k) :
                 k \in 0..(1 + Len(plan.records))}
    ELSE {SyncAfter(start_store[p], proj[p], items[p], k) : k \in 0..Len(items[p])}

\* The store one uninterrupted run of the input of p leaves when started
\* where the previous run of p started.
UninterruptedStore(p) ==
    IF IsUpload(p)
    THEN LET plan == UploadPlan(prev[p].store, proj[p], wb[p])
         IN  StoreAfter(prev[p].store, proj[p], plan, 1 + Len(plan.records))
    ELSE SyncAfter(prev[p].store, proj[p], items[p], Len(items[p]))

\* p has completed the run it had been stopped in just before.
RerunAfterAbort(p) ==
    /\ pc[p] = "done"
    /\ prev[p].outcome = "aborted"
    /\ prev[p].kind = (IF IsUpload(p) THEN "upload" ELSE "sync")
    /\ prev[p].project = proj[p]
    /\ prev[p].input = (IF IsUpload(p) THEN wb[p] ELSE items[p])

\* The records the stopped run had committed.
CommittedBefore(p) ==
    prev[p].result.calls_created + prev[p].result.calls_updated
        + prev[p].result.calls_skipped_duplicate

TaxDupNumber ==
    << TaxHeader,
       <<StrCell(<<"G", "1">>), IntCell(1), StrCell(<<"n", "1">>), StrCell(<<"p">>), StrCell(sDa)>>,
       <<NaN, IntCell(1), StrCell(<<"x", "1">>), NaN, StrCell(sNet)>> >>

\* A group row carrying criterion 1, a row with an empty group cell and
\* criterion 2, a group row without a criterion, then criterion 3.
TaxGroups ==
    << TaxHeader,
       <<StrCell(<<"G", "1">>), IntCell(1), StrCell(<<"n", "1">>), StrCell(<<"p">>), StrCell(sDa)>>,
       <<NaN, IntCell(2), StrCell(<<"n", "2">>), NaN, StrCell(sNet)>>,
       <<StrCell(<<" ", "G", "2">>), NaN, NaN, NaN, NaN>>,
       <<NaN, IntCell(3), StrCell(<<"n", "3">>), NaN, NaN>> >>

\* The group name filled down on every row, and a criterion above any group.
TaxRepeatGroup ==
    << TaxHeader,
       <<NaN, IntCell(9), StrCell(<<"n", "9">>), NaN, NaN>>,
       <<StrCell(<<"G", "1">>), IntCell(1), StrCell(<<"n", "1">>), NaN, StrCell(sDa)>>,
       <<StrCell(<<"G", "1">>), IntCell(2), StrCell(<<"n", "2">>), NaN, StrCell(sDa)>> >>

rowBlank == Row(NaN, NaN, NaN, NaN, NaN)

nameCRITERIA == <<"C", "R", "I", "T", "E", "R", "I", "A">>

nameAISuffix == <<"A", "I", " ", "1", "0", ".", "1", "2">>

nameAiLower == <<"a", "i">>

wbDupNumber == Sheets(TaxDupNumber, Headers5, <<rowA7>>)

wbGroups == Sheets(TaxGroups, Headers5, <<rowA7>>)

wbRepeatGroup == Sheets(TaxRepeatGroup, Headers5, <<rowA7>>)

wbBlankRow == Sheets(TaxTwo, Headers5, <<rowA7, rowBlank, rowA8, rowBlank>>)

\* Two sheets whose names contain "criteria" in another case, after a
\* sheet that does not; the data sheet is named exactly "AI".
wbTwoCriteriaSheets ==
    << [name |-> nameOther, rows |-> TaxGroups],
       [name |-> nameCRITERIA, rows |-> TaxTwo],
       [name |-> nameCriteria, rows |-> TaxGroups],
       [name |-> kwAI, rows |-> AIHead(Headers5) \o <<rowA7>>] >>

\* The data sheet's name contains the keyword with a suffix.
wbAISuffix ==
    << [name |-> nameCriteria, rows |-> TaxTwo],
       [name |-> nameAISuffix, rows |-> AIHead(Headers5) \o <<rowA7>>] >>

\* The data sheet's name is the keyword in lower case.
wbAiLower ==
    << [name |-> nameCriteria, rows |-> TaxTwo],
       [name |-> nameAiLower, rows |-> AIHead(Headers5) \o <<rowA7>>] >>

\* A header that starts with a criterion number and contains 'average'.
hdr2Average == StrCell(<<"2", " ", "a", "v", "e", "r", "a", "g", "e">>)

hdrScore2 == StrCell(<<"2", " ", "n", "2">>)

HeadersTwoTests == <<hdrId, hdrScore1, hdrReason1, hdr2Average, hdrFinal>>

\* Two score columns for criterion 1, one for criterion 2.
HeadersDupScore == <<hdrId, hdrScore1, hdrScore1, hdrScore2, hdrFinal>>

wbTwoTests == Sheets(TaxTwo, HeadersTwoTests, <<rowA7>>)

wbDupScore == Sheets(TaxTwo, HeadersDupScore, <<rowA7, rowA8>>)

EdgeWorkbooks ==
    {wbFirst, wbDupNumber, wbGroups, wbRepeatGroup, wbBlankRow,
     wbTwoCriteriaSheets, wbAISuffix, wbAiLower, wbNoCriteriaSheet, wbNoAISheet,
     wbTwoTests, wbDupScore}

MaxEdgeRuns == 2

\* process_upload(file, project_id) with one of the irregular workbooks.
StartUploadEdge(p) ==
    /\ pc[p] \in Resting
    /\ nRuns < MaxEdgeRuns
    /\ \E project \in Projects, w \in EdgeWorkbooks :
          /\ proj' = [proj EXCEPT ![p] = project]
          /\ wb' = [wb EXCEPT ![p] = w]
    /\ nRuns' = nRuns + 1
    /\ pc' = [pc EXCEPT ![p] = "parse_criteria"]
    /\ items' = [items EXCEPT ![p] = <<>>]
    /\ parsed_criteria' = [parsed_criteria EXCEPT ![p] = NoParsed]
    /\ criteria' = [criteria EXCEPT ![p] = <<>>]
    /\ parsed_calls' = [parsed_calls EXCEPT ![p] = <<>>]
    /\ idx' = [idx EXCEPT ![p] = 0]
    /\ pending' = [pending EXCEPT ![p] = <<>>]
    /\ result' = [result EXCEPT ![p] = NoResult]
    /\ start_store' = [start_store EXCEPT ![p] = Store]
    /\ prev' = [prev EXCEPT ![p] = LastRun(p)]
    /\ UNCHANGED store_vars
    /\ UNCHANGED <<game_vars, auth_vars>>

NextEdge ==
    \/ StartUploadEdge("p1")
    \/ UploadParseCriteria("p1")
    \/ UploadSaveCriteria("p1")
    \/ UploadGetCriteria("p1")
    \/ UploadParseCalls("p1")
    \/ UploadSaveCall("p1")
    \/ UploadReturn("p1")

\* Uploads of the irregular workbooks, one after the other.
SpecEdge == Init /\ [][NextEdge]_vars

\* C11: the store holds at most one group per (project, name) and at most
\* one criterion per (group, number); an ingestion of a taxonomy whose
\* groups and criteria are all stored already adds no row.
C11_TaxonomyUnique ==
    /\ \A i, j \in 1..Len(dbGroups) :
          (dbGroups[i].project = dbGroups[j].project
              /\ dbGroups[i].name = dbGroups[j].name) => i = j
    /\ \A i, j \in 1..Len(dbCriteria) :
          (dbCriteria[i].project = dbCriteria[j].project
              /\ dbCriteria[i].group_id = dbCriteria[j].group_id
              /\ dbCriteria[i].number = dbCriteria[j].number) => i = j
    /\ \A p \in Procs :
          (/\ IsUpload(p)
           /\ pc[p] \in {"get_criteria", "parse_calls", "save_calls", "done"}
           /\ prev[p].kind = "upload"
           /\ prev[p].outcome \in {"done", "failed"}
           /\ prev[p].project = proj[p]
           /\ prev[p].input = wb[p])
          => /\ Len(dbGroups) = Len(start_store[p].groups)
             /\ Len(dbCriteria) = Len(start_store[p].criteria)
             /\ result[p].criteria_created = 0

\* C11 witness: a taxonomy that repeats a group name and one that repeats
\* a criterion number have both been ingested into one project, the second
\* one updating a criterion the first had stored.
C11_Witness ==
    \E p \in Procs :
        /\ pc[p] = "done"
        /\ wb[p] = wbDupNumber
        /\ prev[p].input = wbRepeatGroup
        /\ prev[p].project = proj[p]
        /\ result[p].criteria_updated > 0
        /\ Len(dbCriteria) = 3

\* The data rows of the workbook's AI sheet (sheet rows 4 and on) and the
\* column mapping of its header row.
DataRows(w) ==
    LET rows == w[FindAIFrom(w, 1)].rows
    IN  SubSeq(rows, 4, Len(rows))

HeaderMapping(w) == build_column_mapping(w[FindAIFrom(w, 1)].rows[3], <<>>)

\* Every metadata cell and every score cell of the row is empty.
BlankRow(row, mapping) ==
    /\ \A i \in 1..Len(mapping.meta_columns) :
          ~NotNa(Iloc(row, mapping.meta_columns[i].col))
    /\ \A i \in 1..Len(mapping.triples) :
          mapping.triples[i].score # NoCol
              => ~NotNa(Iloc(row, mapping.triples[i].score))

\* C12: the records built are those of the rows that are not blank, in
\* sheet order; a blank row gives no record, no stored call and no entry
\* of row_errors.
C12_BlankRowDropped ==
    \A p \in Procs :
        (IsUpload(p) /\ pc[p] \in {"save_calls", "done"} /\ ~FatalWorkbook(wb[p])
            /\ BadRows(wb[p]) = <<>>) =>
            LET mapping == HeaderMapping(wb[p])
                kept == SelectSeq(DataRows(wb[p]), LAMBDA r : ~BlankRow(r, mapping))
            IN  /\ parsed_calls[p]
                      = [i \in 1..Len(kept) |-> parse_call_row(kept[i], mapping, <<>>).call]
                /\ result[p].row_errors = <<>>
                /\ \A i \in 1..Len(dbCalls) :
                      dbCalls[i].project = proj[p] => dbCalls[i].external_id # None

\* Criterion j of the parsed taxonomy repeats the group and number of an
\* earlier one.
RepeatsEarlier(parsed, j) ==
    \E i \in 1..(j - 1) :
        /\ parsed.criteria[i].group = parsed.criteria[j].group
        /\ parsed.criteria[i].number = parsed.criteria[j].number

\* C13: of the criterion rows of one group that carry the same number only
\* the first is kept: the parsed taxonomy holds no later one, the rows after
\* it are parsed, and the stored criterion has the first one's name.
C13_DuplicateNumberRejected ==
    \A p \in Procs :
        (IsUpload(p) /\ parsed_criteria[p].ok) =>
            LET all == CriteriaSheetParser_parse(wb[p])
                first == {j \in 1..Len(all.criteria) : ~RepeatsEarlier(all, j)}
            IN  /\ \A j \in 1..Len(parsed_criteria[p].criteria) :
                      ~RepeatsEarlier(parsed_criteria[p], j)
                /\ {parsed_criteria[p].criteria[j] :
                       j \in 1..Len(parsed_criteria[p].criteria)}
                      = {all.criteria[j] : j \in first}
                /\ pc[p] \in {"get_criteria", "parse_calls", "save_calls", "done"} =>
                      \A j \in first :
                          \E i \in 1..Len(dbCriteria) :
                              /\ dbCriteria[i].project = proj[p]
                              /\ dbCriteria[i].number = all.criteria[j].number
                              /\ dbCriteria[i].name = all.criteria[j].name

(***************************************************************************)
(* Two workers, each taking uploads into either project.                   *)
(***************************************************************************)

MaxParallelRuns == 2

ParallelWorkbooks == {wbFirst, wbModified}

StartUploadParallel(p) ==
    /\ pc[p] \in Resting
    /\ nRuns < MaxParallelRuns
    /\ \E project \in Projects, w \in ParallelWorkbooks :
          /\ proj' = [proj EXCEPT ![p] = project]
          /\ wb' = [wb EXCEPT ![p] = w]
    /\ nRuns' = nRuns + 1
    /\ pc' = [pc EXCEPT ![p] = "parse_criteria"]
    /\ items' = [items EXCEPT ![p] = <<>>]
    /\ parsed_criteria' = [parsed_criteria EXCEPT ![p] = NoParsed]
    /\ criteria' = [criteria EXCEPT ![p] = <<>>]
    /\ parsed_calls' = [parsed_calls EXCEPT ![p] = <<>>]
    /\ idx' = [idx EXCEPT ![p] = 0]
    /\ pending' = [pending EXCEPT ![p] = <<>>]
    /\ result' = [result EXCEPT ![p] = NoResult]
    /\ start_store' = [start_store EXCEPT ![p] = Store]
    /\ prev' = [prev EXCEPT ![p] = LastRun(p)]
    /\ UNCHANGED store_vars
    /\ UNCHANGED <<game_vars, auth_vars>>

StepParallel(p) ==
    \/ StartUploadParallel(p)
    \/ UploadParseCriteria(p)
    \/ UploadSaveCriteria(p)
    \/ UploadGetCriteria(p)
    \/ UploadParseCalls(p)
    \/ UploadSaveCall(p)
    \/ UploadReturn(p)

NextParallel == \E p \in Procs : StepParallel(p)

SpecParallel == Init /\ [][NextParallel]_vars

\* The rows of the store that belong to project b.  A criterion row
\* carries its project through its group.
ProjectRows(st, b) ==
    [groups |-> SelectSeq(st.groups, LAMBDA r : r.project = b),
     criteria |-> SelectSeq(st.criteria, LAMBDA r : r.project = b),
     calls |-> SelectSeq(st.calls, LAMBDA r : r.project = b)]

\* Worker p takes this step.
Acts(p) ==
    \/ pc'[p] # pc[p]
    \/ idx'[p] # idx[p]
    \/ pending'[p] # pending[p]

\* C14: a step of a run leaves the stored groups, criteria and calls of
\* every project other than its own unchanged, whatever the other worker
\* is doing at the time.
C14_ProjectsIndependent ==
    [][\A b \in Projects :
          (\A p \in Procs : Acts(p) => proj'[p] # b)
              => ProjectRows(Store', b) = ProjectRows(Store, b)]_vars

\* C14 witness: both workers are inside the row loops of uploads into
\* different projects at the same time, neither waiting for the other,
\* each with a call stored.
C14_Witness ==
    /\ pc["p1"] = "save_calls" /\ pc["p2"] = "save_calls"
    /\ proj["p1"] # proj["p2"]
    /\ idx["p1"] = 2 /\ idx["p2"] = 2
    /\ \A b \in Projects : ProjectRows(Store, b).calls # <<>>

\* The first sheet, in list order, whose name contains the keyword as a
\* case-insensitive substring; 0 when no name contains it.
RECURSIVE FirstMatchFrom(_, _, _)
FirstMatchFrom(w, keyword, i) ==
    IF i > Len(w) THEN 0
    ELSE IF Contains(Lower(w[i].name), Lower(keyword)) THEN i
    ELSE FirstMatchFrom(w, keyword, i + 1)

FirstMatch(w, keyword) == FirstMatchFrom(w, keyword, 1)

\* Every data row of the sheet parses.
RowsParse(sheet) ==
    \A i \in 4..Len(sheet.rows) :
        parse_call_row(sheet.rows[i], build_column_mapping(sheet.rows[3], <<>>), <<>>).ok

\* C15: the taxonomy is read from the first sheet whose name contains
\* "criteria", the data rows from the first sheet whose name contains "ai",
\* both case-insensitively; the run fails for want of a sheet exactly when
\* no sheet name contains the keyword.
C15_SheetLocatorFirstMatch ==
    \A p \in Procs :
        IsUpload(p) =>
            LET t == FirstMatch(wb[p], kwCriteria)
                d == FirstMatch(wb[p], kwAI)
            IN  /\ t = 0 => pc[p] \in {"parse_criteria", "failed"}
                /\ (t # 0 /\ pc[p] # "parse_criteria") =>
                      parsed_criteria[p] = CriteriaSheetParser_parse(<<wb[p][t]>>)
                /\ (t # 0 /\ d = 0) => pc[p] \notin {"save_calls", "done"}
                /\ (t # 0 /\ d # 0 /\ RowsParse(wb[p][d])) =>
                      /\ pc[p] # "failed"
                      /\ pc[p] \in {"save_calls", "done"} =>
                            parsed_calls[p]
                                = AISheetParser_parse(<<[name |-> kwAI,
                                                         rows |-> wb[p][d].rows]>>,
                                                      criteria[p]).calls

\* The order in which process_upload passes through its positions.
UploadOrder ==
    {<<r, "parse_criteria">> : r \in Resting}
        \cup {<<"parse_criteria", "save_criteria">>, <<"parse_criteria", "failed">>,
              <<"save_criteria", "get_criteria">>,
              <<"get_criteria", "parse_calls">>,
              <<"parse_calls", "save_calls">>, <<"parse_calls", "failed">>,
              <<"save_calls", "done">>}

\* The numbers of the criteria parsed from the workbook of p.
ParsedNumbers(p) ==
    {parsed_criteria[p].criteria[i].number : i \in 1..Len(parsed_criteria[p].criteria)}

\* C17: an upload passes through its steps in the fixed order; when the
\* columns are classified every criterion of this workbook's taxonomy is
\* stored and in the snapshot, and each column numbered after one of them
\* is mapped, every record built carrying an entry for it.
C17_FixedOrderFreshSnapshot ==
    [][\A p \in Procs :
          IsUpload(p)' =>
              /\ pc'[p] # pc[p] => <<pc[p], pc'[p]>> \in UploadOrder
              /\ (pc[p] = "parse_calls" /\ pc'[p] = "save_calls") =>
                    LET mapping == HeaderMapping(wb[p])
                        cols == {c \in NumberedColumns(wb[p][FindAIFrom(wb[p], 1)].rows[3]) :
                                    c.num \in ParsedNumbers(p) \ mapping.duplicate_role}
                    IN  /\ ParsedNumbers(p) \subseteq SnapshotNumbers(p)
                        /\ \A i \in 1..Len(criteria[p]) :
                              \E j \in 1..Len(dbCriteria) : dbCriteria[j] = criteria[p][i]
                        /\ \A c \in cols :
                              /\ c.col \in MappedColumns(mapping)
                              /\ \A i \in 1..Len(parsed_calls'[p]) :
                                    \E j \in 1..Len(parsed_calls'[p][i].scores) :
                                        parsed_calls'[p][i].scores[j].criteria_number = c.num]_vars

\* C17 witness: the columns have been classified in a run whose workbook
\* brought a criterion the project did not have, and the first record
\* carries a score for it.
C17_Witness ==
    \E p \in Procs :
        /\ pc[p] = "save_calls"
        /\ parsed_calls[p] # <<>>
        /\ \E i \in 1..Len(criteria[p]) :
              /\ \A j \in 1..Len(start_store[p].criteria) :
                    start_store[p].criteria[j].project = proj[p]
                        => start_store[p].criteria[j].number # criteria[p][i].number
              /\ \E j \in 1..Len(parsed_calls[p][1].scores) :
                    /\ parsed_calls[p][1].scores[j].criteria_number = criteria[p][i].number
                    /\ parsed_calls[p][1].scores[j].score # None

\* The role the rules give a header when the first matching rule decides:
\* metadata keyword, then leading number, then 'final' / 'average'.
FirstRuleRole(header) ==
    LET header_lower == Strip(Lower(PyStr(header)))
        n == LeadingNumberMatch(Strip(PyStr(header)))
    IN  IF header.t # "str" \/ header.s = <<>> THEN "unknown"
        ELSE IF MetaFieldFrom(header_lower, 1) # "" THEN "meta"
        ELSE IF n > 0
             THEN IF Contains(header_lower, kwReason) THEN "reason"
                  ELSE IF Contains(header_lower, kwQuote) THEN "quote"
                  ELSE "score"
        ELSE IF Contains(header_lower, kwFinal) \/ Contains(header_lower, kwAverage)
             THEN "formula"
        ELSE "unknown"

\* The roles under which the mapping holds column col.
RegisteredRoles(mapping, col) ==
    {"meta" : i \in {k \in 1..Len(mapping.meta_columns) : mapping.meta_columns[k].col = col}}
        \cup {"formula" : i \in {k \in 1..Len(mapping.formula_columns) :
                                    mapping.formula_columns[k].col = col}}
        \cup {r \in {"score", "reason", "quote"} :
                 \E i \in 1..Len(mapping.triples) : mapping.triples[i][r] = col}

\* C18: once the columns of a data sheet are classified, every column is
\* registered under the one role of its first matching rule and under no
\* other (columns of a criterion excluded for a repeated role aside).
C18_OneRolePerColumn ==
    \A p \in Procs :
        (RecordsBuilt(p) /\ ~FatalWorkbook(wb[p])) =>
            LET headers == wb[p][FindAIFrom(wb[p], 1)].rows[3]
                mapping == build_column_mapping(headers, criteria[p])
                excluded == {c.col : c \in {d \in NumberedColumns(headers) :
                                               d.num \in mapping.duplicate_role}}
            IN  \A i \in (1..Len(headers)) :
                    (i - 1) \notin excluded =>
                        RegisteredRoles(mapping, i - 1) =
                            {FirstRuleRole(headers[i])} \ {"unknown"}

\* The criterion numbers for which two columns of the header row have the
\* same role.
RepeatedRoleNumbers(headers) ==
    {c.num : c \in {d \in NumberedColumns(headers) :
                       \E e \in NumberedColumns(headers) :
                           /\ e.num = d.num
                           /\ e.col # d.col
                           /\ FirstRuleRole(headers[e.col + 1]) =
                                  FirstRuleRole(headers[d.col + 1])}}

\* C19: when two columns have the same role for one criterion, the records
\* built carry no entry for that criterion, an entry for every other
\* criterion that has columns, read from its own columns, and the
\* metadata and the final value of their rows.
C19_DuplicateRoleScoped ==
    \A p \in Procs :
        (RecordsBuilt(p) /\ ~FatalWorkbook(wb[p])) =>
            LET headers == wb[p][FindAIFrom(wb[p], 1)].rows[3]
                rows == DataRows(wb[p])
                repeated == RepeatedRoleNumbers(headers)
                others == {c \in NumberedColumns(headers) : c.num \notin repeated}
            IN  repeated # {} =>
                    /\ Len(parsed_calls[p]) = Len(rows)
                    /\ \A i \in 1..Len(parsed_calls[p]) :
                          LET call == parsed_calls[p][i]
                          IN  /\ \A j \in 1..Len(call.scores) :
                                    call.scores[j].criteria_number \notin repeated
                              /\ \A c \in others :
                                    \E j \in 1..Len(call.scores) :
                                        /\ call.scores[j].criteria_number = c.num
                                        /\ FirstRuleRole(headers[c.col + 1]) = "score"
                                              => call.scores[j].score =
                                                     parse_score(Iloc(rows[i], c.col))
                              /\ \A k \in 1..Len(headers) :
                                    /\ (FirstRuleRole(headers[k]) = "meta" /\ NotNa(rows[i][k]))
                                          => \E f \in DOMAIN call.metadata :
                                                 call.metadata[f] = rows[i][k]
                                    /\ (FirstRuleRole(headers[k]) = "formula" /\ NotNa(rows[i][k]))
                                          => call.final_percent # None

\* C19 witness: records were built from a sheet with two score columns for
\* criterion 1; the first record has an entry for criterion 2 and none for 1.
C19_Witness ==
    \E p \in Procs :
        /\ RecordsBuilt(p)
        /\ wb[p] = wbDupScore
        /\ Len(parsed_calls[p]) = 2
        /\ \E j \in 1..Len(parsed_calls[p][1].scores) :
              /\ parsed_calls[p][1].scores[j].criteria_number = 2
              /\ parsed_calls[p][1].scores[j].score # None
        /\ \A j \in 1..Len(parsed_calls[p][1].scores) :
              parsed_calls[p][1].scores[j].criteria_number # 1

\* The rows of the taxonomy sheet of w, the pandas header row left out.
TaxRows(w) == Tail(w[find_criteria_sheet(w)].rows)

IsGroupRow(row) == NotNa(row[1]) /\ Strip(PyStr(row[1])) # <<>>

\* The indices of the group rows, and of the criterion rows, among the
\* first n rows.
GroupRowsUpTo(rows, n) == {k \in 1..n : IsGroupRow(rows[k])}

CriterionRowsUpTo(rows, n) == {k \in 1..n : NotNa(rows[k][2])}

\* C20: in a parsed taxonomy the k-th group is the k-th group row of the
\* sheet, with its trimmed name and order k - 1, and the j-th criterion is
\* the j-th row with a number, attached to the group of the nearest group
\* row at or above it (to none when there is no such row).
C20_NearestGroupAbove ==
    \A p \in Procs :
        (IsUpload(p) /\ pc[p] = "save_criteria") =>
            LET rows == TaxRows(wb[p])
                parsed == parsed_criteria[p]
            IN  /\ Len(parsed.groups) = Cardinality(GroupRowsUpTo(rows, Len(rows)))
                /\ Len(parsed.criteria) = Cardinality(CriterionRowsUpTo(rows, Len(rows)))
                /\ \A r \in GroupRowsUpTo(rows, Len(rows)) :
                      LET k == Cardinality(GroupRowsUpTo(rows, r))
                      IN  /\ parsed.groups[k].order = k - 1
                          /\ parsed.groups[k].name = Strip(PyStr(rows[r][1]))
                /\ \A r \in CriterionRowsUpTo(rows, Len(rows)) :
                      LET j == Cardinality(CriterionRowsUpTo(rows, r))
                      IN  /\ parsed.criteria[j].number = PyInt(rows[r][2]).v
                          /\ parsed.criteria[j].group = Cardinality(GroupRowsUpTo(rows, r))

\* C20 witness: a taxonomy was parsed into two groups, the first holding
\* the criterion of its own row and the one of the row below it, the
\* second holding a criterion of a later row.
C20_Witness ==
    \E p \in Procs :
        /\ IsUpload(p) /\ pc[p] = "save_criteria"
        /\ Len(parsed_criteria[p].groups) = 2
        /\ Len(parsed_criteria[p].criteria) = 3
        /\ IsGroupRow(TaxRows(wb[p])[1]) /\ NotNa(TaxRows(wb[p])[1][2])
        /\ ~IsGroupRow(TaxRows(wb[p])[2])
        /\ parsed_criteria[p].criteria[1].group = 1
        /\ parsed_criteria[p].criteria[2].group = 1
        /\ parsed_criteria[p].criteria[3].group = 2
        /\ parsed_criteria[p].groups[2].order = 1

(***************************************************************************)
(* The snake game: the handlers of useSnake as the Game component calls    *)
(* them.                                                                   *)
(***************************************************************************)

MaxSteps == 6

MaxKeys == 2

MaxGames == 2

\* The obstacle arrays taken from what generateObstacles can return at
\* startGame: one off the snake's way, one with an obstacle on it.
InitialLayouts ==
    { {Pos(0, 0), Pos(2, 0), Pos(4, 0), Pos(6, 0), Pos(8, 0)},
      {Pos(0, 0), Pos(2, 0), Pos(4, 0), Pos(6, 0), Pos(12, 10)} }

\* startGame, called by Enter, Space and the buttons of the start and
\* game-over screens.
startGame ==
    /\ gameState \in {"start", "gameover"}
    /\ LET initialSnake == getInitialSnake
       IN  \E initialObstacles \in InitialLayouts :
               /\ initialObstacles \in generateObstacles(INITIAL_OBSTACLES, initialSnake)
               /\ snake' = initialSnake
               /\ obstacles' = initialObstacles
               /\ food' \in generateFood(initialSnake, initialObstacles)
    /\ direction' = "RIGHT"
    /\ nextDirection' = "RIGHT"
    /\ score' = 0
    /\ speed' = INITIAL_SPEED
    /\ obstacleCount' = INITIAL_OBSTACLES
    /\ gameState' = "playing"
    /\ nGames' = nGames + 1
    /\ UNCHANGED <<highScore, nSteps, nKeys>>
    /\ UNCHANGED <<store_vars, pc, proj, wb, items, parsed_criteria, criteria,
                   parsed_calls, idx, pending, result, nRuns, start_store, prev,
                   auth_vars>>

\* The handler without the test against the opposite direction.
changeDirection_unchecked(newDirection) ==
    /\ nextDirection' = newDirection
    /\ nKeys' = nKeys + 1
    /\ UNCHANGED <<snake, food, obstacles, direction, score, highScore, speed,
                   gameState, obstacleCount, nSteps, nGames>>
    /\ UNCHANGED <<store_vars, pc, proj, wb, items, parsed_criteria, criteria,
                   parsed_calls, idx, pending, result, nRuns, start_store, prev,
                   auth_vars>>

\* changeDirection(newDirection), on an arrow or WASD key.
changeDirection(newDirection) ==
    /\ nextDirection' = IF OPPOSITE[newDirection] = direction
                        THEN nextDirection ELSE newDirection
    /\ nKeys' = nKeys + 1
    /\ UNCHANGED <<snake, food, obstacles, direction, score, highScore, speed,
                   gameState, obstacleCount, nSteps, nGames>>
    /\ UNCHANGED <<store_vars, pc, proj, wb, items, parsed_criteria, criteria,
                   parsed_calls, idx, pending, result, nRuns, start_store, prev,
                   auth_vars>>

\* The handler resuming from every state other than 'playing'.
togglePause_resume ==
    /\ gameState' = IF gameState = "playing" THEN "paused"
                    ELSE "playing"
    /\ nKeys' = nKeys + 1
    /\ UNCHANGED <<snake, food, obstacles, direction, nextDirection, score,
                   highScore, speed, obstacleCount, nSteps, nGames>>
    /\ UNCHANGED <<store_vars, pc, proj, wb, items, parsed_criteria, criteria,
                   parsed_calls, idx, pending, result, nRuns, start_store, prev,
                   auth_vars>>

\* togglePause
togglePause ==
    /\ gameState' = IF gameState = "playing" THEN "paused"
                    ELSE IF gameState = "paused" THEN "playing"
                    ELSE gameState
    /\ nKeys' = nKeys + 1
    /\ UNCHANGED <<snake, food, obstacles, direction, nextDirection, score,
                   highScore, speed, obstacleCount, nSteps, nGames>>
    /\ UNCHANGED <<store_vars, pc, proj, wb, items, parsed_criteria, criteria,
                   parsed_calls, idx, pending, result, nRuns, start_store, prev,
                   auth_vars>>

\* gameStep, one tick of the game loop.  handleGameOver sets the state;
\* its saveScore call is outside the hook's state.
gameStep ==
    /\ nSteps' = nSteps + 1
    /\ IF gameState # "playing"
       THEN UNCHANGED <<snake, food, obstacles, direction, nextDirection, score,
                        highScore, speed, gameState, obstacleCount>>
       ELSE LET currentSnake == snake
                dir == DIRECTIONS[nextDirection]
                head == currentSnake[1]
                newHead == Pos(head.x + dir.x, head.y + dir.y)
                bodyWithoutTail == SubSeq(currentSnake, 1, Len(currentSnake) - 1)
                collision ==
                    \/ newHead.x < 0 \/ newHead.x >= GRID_SIZE
                    \/ newHead.y < 0 \/ newHead.y >= GRID_SIZE
                    \/ \E i \in 1..Len(bodyWithoutTail) : bodyWithoutTail[i] = newHead
                    \/ newHead \in obstacles
                ateFood == newHead.x = food.x /\ newHead.y = food.y
                newSnakeWithHead == <<newHead>> \o currentSnake
                newScore == score + food.points
            IN  /\ direction' = nextDirection
                /\ UNCHANGED nextDirection
                /\ IF collision
                   THEN /\ gameState' = "gameover"
                        /\ UNCHANGED <<snake, food, obstacles, score, highScore,
                                       speed, obstacleCount>>
                   ELSE IF ateFood
                   THEN /\ score' = newScore
                        /\ highScore' = IF newScore > highScore THEN newScore
                                        ELSE highScore
                        /\ speed' = IF speed - SPEED_INCREMENT > MIN_SPEED
                                    THEN speed - SPEED_INCREMENT ELSE MIN_SPEED
                        /\ IF Len(currentSnake) % 5 = 0 /\ obstacleCount < MAX_OBSTACLES
                           THEN /\ obstacleCount' = obstacleCount + 1
                                /\ \E position \in
                                       generateFreePosition(newSnakeWithHead, obstacles, food) :
                                       obstacles' = obstacles \cup {position}
                           ELSE UNCHANGED <<obstacleCount, obstacles>>
                        /\ food' \in generateFood(newSnakeWithHead, obstacles)
                        /\ snake' = newSnakeWithHead
                        /\ UNCHANGED gameState
                   ELSE /\ snake' = <<newHead>> \o bodyWithoutTail
                        /\ UNCHANGED <<food, obstacles, score, highScore, speed,
                                       gameState, obstacleCount>>
    /\ UNCHANGED <<nKeys, nGames>>
    /\ UNCHANGED <<store_vars, pc, proj, wb, items, parsed_criteria, criteria,
                   parsed_calls, idx, pending, result, nRuns, start_store, prev,
                   auth_vars>>

\* The handlers within the bounds on games, key presses and ticks.
StartGame == nGames < MaxGames /\ startGame

ChangeDirection(newDirection) == nKeys < MaxKeys /\ changeDirection(newDirection)

TogglePause == nKeys < MaxKeys /\ togglePause

GameStep == nSteps < MaxSteps /\ gameStep

NextSnake ==
    \/ StartGame
    \/ \E newDirection \in DOMAIN DIRECTIONS : ChangeDirection(newDirection)
    \/ TogglePause
    \/ GameStep

\* The page is opened: the first food is drawn.
InitSnake ==
    /\ InitIngestion
    /\ \E f \in generateFood(getInitialSnake, {}) : InitGame(f)
    /\ InitAuth(NoToken, "/login")

SpecSnake == InitSnake /\ [][NextSnake]_vars

\* The foods eaten since startGame: the snake grows by one with each.
FoodsEaten == Len(snake) - Len(getInitialSnake)

\* C16: a step that eats a food adds an obstacle exactly when the count of
\* foods eaten since startGame becomes a multiple of 5 while fewer than
\* MAX_OBSTACLES obstacles exist.
C16_ObstacleEveryFifthFood ==
    [][(gameState = "playing" /\ Len(snake') = Len(snake) + 1) =>
          (obstacles' # obstacles
              <=> (FoodsEaten' % 5 = 0 /\ Cardinality(obstacles) < MAX_OBSTACLES))]_vars

sUngrouped == <<"U", "n", "g", "r", "o", "u", "p", "e", "d">>

\* C21: no parsed criterion is without a group, and a criterion row above
\* every group row belongs to a group named "Ungrouped".
C21_UngroupedGroup ==
    \A p \in Procs :
        (IsUpload(p) /\ pc[p] = "save_criteria") =>
            LET rows == TaxRows(wb[p])
                parsed == parsed_criteria[p]
            IN  \A r \in CriterionRowsUpTo(rows, Len(rows)) :
                    LET j == Cardinality(CriterionRowsUpTo(rows, r))
                    IN  /\ parsed.criteria[j].group # 0
                        /\ GroupRowsUpTo(rows, r) = {} =>
                              parsed.groups[parsed.criteria[j].group].name = sUngrouped

(***************************************************************************)
(* Data sheets with irregular columns and cells.                           *)
(***************************************************************************)

hdrFinalB == StrCell(<<"F", "i", "n", "a", "l", " ", "2">>)

\* The column of criterion 2 to the left of the columns of criterion 1.
HeadersSwapped == <<hdrId, hdrScore2, hdrScore1, hdrReason1, hdrFinal>>

\* Two columns whose header contains 'final'.
HeadersTwoFinals == <<hdrId, hdrScore1, hdrFinal, hdrReason1, hdrFinalB>>

wbSwapped ==
    Sheets(TaxTwo, HeadersSwapped,
           << <<IntCell(7), StrCell(sDa), IntCell(5), StrCell(sHi), FloatCell(875)>> >>)

\* Both final cells filled; then the left one empty; then the right one.
wbTwoFinals ==
    Sheets(TaxTwo, HeadersTwoFinals,
           << <<IntCell(7), IntCell(5), FloatCell(875), StrCell(sHi), FloatCell(600)>>,
              <<IntCell(8), IntCell(4), NaN, NaN, FloatCell(600)>>,
              <<IntCell(9), IntCell(3), FloatCell(875), NaN, NaN>> >>)

\* Score cells 4.5, 5.0, '5', ' Да ' and an empty one.
wbScoreKinds ==
    Sheets(TaxTwo, Headers5,
           << Row(IntCell(1), FloatCell(45), NaN, NaN, NaN),
              Row(IntCell(2), FloatCell(50), NaN, NaN, NaN),
              Row(IntCell(3), StrCell(<<"5">>), NaN, NaN, NaN),
              Row(IntCell(4), StrCell(<<" ">> \o sDa \o <<" ">>), NaN, NaN, NaN),
              Row(IntCell(5), NaN, StrCell(sHi), NaN, NaN) >>)

RowWorkbooks == {wbFirst, wbModified, wbBlankRow, wbSwapped, wbTwoFinals, wbScoreKinds}

MaxRowRuns == 2

\* process_upload(file, project_id) with one of these workbooks.
StartUploadRows(p) ==
    /\ pc[p] \in Resting
    /\ nRuns < MaxRowRuns
    /\ \E project \in Projects, w \in RowWorkbooks :
          /\ proj' = [proj EXCEPT ![p] = project]
          /\ wb' = [wb EXCEPT ![p] = w]
    /\ nRuns' = nRuns + 1
    /\ pc' = [pc EXCEPT ![p] = "parse_criteria"]
    /\ items' = [items EXCEPT ![p] = <<>>]
    /\ parsed_criteria' = [parsed_criteria EXCEPT ![p] = NoParsed]
    /\ criteria' = [criteria EXCEPT ![p] = <<>>]
    /\ parsed_calls' = [parsed_calls EXCEPT ![p] = <<>>]
    /\ idx' = [idx EXCEPT ![p] = 0]
    /\ pending' = [pending EXCEPT ![p] = <<>>]
    /\ result' = [result EXCEPT ![p] = NoResult]
    /\ start_store' = [start_store EXCEPT ![p] = Store]
    /\ prev' = [prev EXCEPT ![p] = LastRun(p)]
    /\ UNCHANGED store_vars
    /\ UNCHANGED <<game_vars, auth_vars>>

NextRows ==
    \/ StartUploadRows("p1")
    \/ UploadParseCriteria("p1")
    \/ UploadSaveCriteria("p1")
    \/ UploadGetCriteria("p1")
    \/ UploadParseCalls("p1")
    \/ UploadSaveCall("p1")
    \/ UploadReturn("p1")

SpecRows == Init /\ [][NextRows]_vars

\* The place of criterion number num in the taxonomy parsed in the run of p.
RECURSIVE TaxPlaceFrom(_, _, _)
TaxPlaceFrom(seq, num, i) ==
    IF i > Len(seq) THEN 0
    ELSE IF seq[i].number = num THEN i
    ELSE TaxPlaceFrom(seq, num, i + 1)

TaxPlace(p, num) == TaxPlaceFrom(parsed_criteria[p].criteria, num, 1)

\* C22: in every record built the score entries of the taxonomy's criteria
\* stand in the order of the taxonomy, whatever the order of the columns.
C22_ScoresInTaxonomyOrder ==
    \A p \in Procs :
        (RecordsBuilt(p) /\ ~FatalWorkbook(wb[p])) =>
            \A i \in 1..Len(parsed_calls[p]) :
                LET scores == parsed_calls[p][i].scores
                IN  \A j, k \in 1..Len(scores) :
                        (j < k /\ TaxPlace(p, scores[j].criteria_number) # 0
                               /\ TaxPlace(p, scores[k].criteria_number) # 0) =>
                            TaxPlace(p, scores[j].criteria_number)
                                < TaxPlace(p, scores[k].criteria_number)

\* The 1-based places of the Formula columns whose label contains 'final'.
FinalColumns(headers) ==
    {k \in 1..Len(headers) :
        /\ FirstRuleRole(headers[k]) = "formula"
        /\ Contains(Lower(PyStr(headers[k])), kwFinal)}

\* The smallest element of a non-empty set of numbers.
Leftmost(S) == CHOOSE k \in S : \A m \in S : k <= m

\* C23: final_percent of every record built is the value of the leftmost
\* Formula column whose label contains 'final', and null when there is no
\* such column or its cell is empty.
C23_FirstFinalColumn ==
    \A p \in Procs :
        (RecordsBuilt(p) /\ ~FatalWorkbook(wb[p])) =>
            LET headers == wb[p][FindAIFrom(wb[p], 1)].rows[3]
                rows == DataRows(wb[p])
                finals == FinalColumns(headers)
            IN  \A i \in 1..Len(parsed_calls[p]) :
                    parsed_calls[p][i].final_percent =
                        IF finals = {} \/ ~NotNa(rows[i][Leftmost(finals)]) THEN None
                        ELSE FloatCell(PyFloat(rows[i][Leftmost(finals)]).v)

\* A cell that can be read as a number: a number, or a numeric string.
NumericCoercible(cell) ==
    NotNa(cell) /\ (IsNumber(cell) \/ ParseFloatStr(cell.s).ok)

\* The text of the numeric value of such a cell: '5' for 5, 5.0 and '5',
\* '4.5' for 4.5.
NumericText(cell) ==
    LET tenths == PyFloat(cell).v
    IN  IF tenths % 10 = 0 THEN IntToStr(tenths \div 10)
        ELSE PyStr(FloatCell(tenths))

\* C24: for every score column of every record built, an empty cell gives
\* no entry for the criterion, a numeric-coercible cell gives the entry its
\* numeric value, and any other cell gives it the trimmed string.  (The
\* numeric value is compared as its decimal text.)
C24_ScoreNormalization ==
    \A p \in Procs :
        (RecordsBuilt(p) /\ ~FatalWorkbook(wb[p])) =>
            LET headers == wb[p][FindAIFrom(wb[p], 1)].rows[3]
                rows == DataRows(wb[p])
                cols == {c \in NumberedColumns(headers) :
                            FirstRuleRole(headers[c.col + 1]) = "score"}
            IN  \A i \in 1..Len(parsed_calls[p]) :
                    \A c \in cols :
                        LET cell == rows[i][c.col + 1]
                            scores == parsed_calls[p][i].scores
                            entries == {j \in 1..Len(scores) :
                                           scores[j].criteria_number = c.num}
                        IN  IF ~NotNa(cell) THEN entries = {}
                            ELSE /\ entries # {}
                                 /\ \A j \in entries :
                                       scores[j].score =
                                           IF NumericCoercible(cell)
                                           THEN StrCell(NumericText(cell))
                                           ELSE StrCell(Strip(PyStr(cell)))

\* The blank data rows of the run of p from which no record was built.
BlankRowsDropped(p) ==
    LET rows == DataRows(wb[p])
        mapping == HeaderMapping(wb[p])
    IN  Cardinality({i \in 1..Len(rows) :
            /\ BlankRow(rows[i], mapping)
            /\ \A j \in 1..Len(parsed_calls[p]) :
                  parsed_calls[p][j] # parse_call_row(rows[i], mapping, criteria[p]).call})

GameStarted == gameState \in {"playing", "paused", "gameover"}

\* C26: once a game has been started the food lies on no snake segment and
\* on no obstacle.
C26_FoodOnFreeCell ==
    GameStarted =>
        /\ \A i \in 1..Len(snake) : ~(snake[i].x = food.x /\ snake[i].y = food.y)
        /\ Pos(food.x, food.y) \notin obstacles

(***************************************************************************)
(* One game played to its end: more ticks and key presses, no pause, no    *)
(* second game, and foods of one type.                                     *)
(***************************************************************************)

MaxRunSteps == 10

MaxRunKeys == 3

\* The food type drawn in this game.
RunFoodType == "apple"

RunStartGame == gameState = "start" /\ startGame /\ food'.type = RunFoodType

\* A key press during the game that asks for another direction than the
\* one asked for already.
RunChangeDirection(newDirection) ==
    /\ gameState = "playing"
    /\ newDirection # nextDirection
    /\ OPPOSITE[newDirection] # direction
    /\ nKeys < MaxRunKeys
    /\ changeDirection(newDirection)

RunGameStep ==
    /\ gameState = "playing"
    /\ nSteps < MaxRunSteps
    /\ gameStep
    /\ food'.type = RunFoodType

NextSnakeRun ==
    \/ RunStartGame
    \/ \E newDirection \in DOMAIN DIRECTIONS : RunChangeDirection(newDirection)
    \/ RunGameStep

SpecSnakeRun == InitSnake /\ [][NextSnakeRun]_vars

\* All segments inside the grid, pairwise distinct, none on an obstacle.
SnakeSafe(segments, obs) ==
    /\ \A i \in 1..Len(segments) :
          /\ segments[i].x \in 0..(GRID_SIZE - 1)
          /\ segments[i].y \in 0..(GRID_SIZE - 1)
          /\ segments[i] \notin obs
    /\ \A i, j \in 1..Len(segments) : segments[i] = segments[j] => i = j

\* The cell the head would enter at the next tick.
AheadOfHead == Pos(snake[1].x + DIRECTIONS[nextDirection].x,
                   snake[1].y + DIRECTIONS[nextDirection].y)

\* The next tick would leave the grid, hit a body segment other than the
\* tail, or hit an obstacle.
WouldCollide ==
    \/ AheadOfHead.x \notin 0..(GRID_SIZE - 1)
    \/ AheadOfHead.y \notin 0..(GRID_SIZE - 1)
    \/ \E i \in 1..(Len(snake) - 1) : snake[i] = AheadOfHead
    \/ AheadOfHead \in obstacles

\* A tick of the game loop while the game is played.
Tick == gameState = "playing" /\ nSteps' # nSteps

Roles == {"ceo", "manager"}

AccessToken == "access_token"

\* checkAuth requests in flight at a time, per pathname.
MaxChecks == 2

getDefaultPath(role) ==
    CASE role = "ceo" -> "/executive"
      [] role = "rop" -> "/team"
      [] role = "manager" -> "/my"
      [] role = "admin" -> "/admin"
      [] OTHER -> "/"

UserOf(role) == [id |-> 1, role |-> role]

\* Everything outside the auth layer.
rest_vars ==
    <<store_vars, pc, proj, wb, items, parsed_criteria, criteria, parsed_calls,
      idx, pending, result, nRuns, start_store, prev, game_vars>>

\* router.push(path): the pathname changes and the checkAuth effect,
\* which depends on it, is due again.
push(path) ==
    /\ pathname' = path
    /\ checkAuthPending' = (checkAuthPending \/ path # pathname)

\* The checkAuth effect up to its await: without a token it ends at once,
\* with a token it sends getMe.
CheckAuth ==
    /\ checkAuthPending
    /\ IF token = NoToken
       THEN /\ isLoading' = FALSE
            /\ IF pathname \notin PUBLIC_PATHS
               THEN pathname' = "/login" /\ checkAuthPending' = TRUE
               ELSE pathname' = pathname /\ checkAuthPending' = FALSE
            /\ UNCHANGED checking
       ELSE /\ checking[pathname] + 1 <= MaxChecks
            /\ checking' = [checking EXCEPT ![pathname] = @ + 1]
            /\ checkAuthPending' = FALSE
            /\ UNCHANGED <<isLoading, pathname>>
    /\ UNCHANGED <<token, user, loginCall, refreshCall, rest_vars>>

\* checkAuth after its await, getMe resolved.
CheckAuthResolved(path, role) ==
    /\ checking[path] > 0
    /\ checking' = [checking EXCEPT ![path] = @ - 1]
    /\ user' = UserOf(role)
    /\ isLoading' = FALSE
    /\ UNCHANGED <<token, pathname, checkAuthPending, loginCall, refreshCall,
                   rest_vars>>

\* checkAuth after its await, getMe rejected: the catch and the finally.
CheckAuthRejected(path) ==
    /\ checking[path] > 0
    /\ checking' = [checking EXCEPT ![path] = @ - 1]
    /\ token' = NoToken
    /\ IF path \notin PUBLIC_PATHS
       THEN push("/login")
       ELSE UNCHANGED <<pathname, checkAuthPending>>
    /\ isLoading' = FALSE
    /\ UNCHANGED <<user, loginCall, refreshCall, rest_vars>>

\* login up to its first await: api.login sends /auth/login.
Login ==
    /\ loginCall = "idle"
    /\ loginCall' = "login"
    /\ UNCHANGED <<token, user, isLoading, pathname, checkAuthPending, checking,
                   refreshCall, rest_vars>>

\* /auth/login resolved: api.login sets the token and login sends getMe.
LoginResolved ==
    /\ loginCall = "login"
    /\ token' = AccessToken
    /\ loginCall' = "getMe"
    /\ UNCHANGED <<user, isLoading, pathname, checkAuthPending, checking,
                   refreshCall, rest_vars>>

\* /auth/login or the getMe after it rejected: login throws.
LoginRejected ==
    /\ loginCall \in {"login", "getMe"}
    /\ loginCall' = "idle"
    /\ UNCHANGED <<token, user, isLoading, pathname, checkAuthPending, checking,
                   refreshCall, rest_vars>>

\* login after getMe resolved.
LoginGetMeResolved(role) ==
    /\ loginCall = "getMe"
    /\ user' = UserOf(role)
    /\ push(getDefaultPath(role))
    /\ loginCall' = "idle"
    /\ UNCHANGED <<token, isLoading, checking, refreshCall, rest_vars>>

\* logout
logout ==
    /\ token' = NoToken
    /\ user' = NoUser
    /\ push("/login")

Logout ==
    /\ logout
    /\ UNCHANGED <<isLoading, checking, loginCall, refreshCall, rest_vars>>

\* refreshUser up to its await; a request without a token can only be
\* rejected.
RefreshUser ==
    /\ refreshCall = "idle"
    /\ refreshCall' = IF token = NoToken THEN "getMe, no token" ELSE "getMe"
    /\ UNCHANGED <<token, user, isLoading, pathname, checkAuthPending, checking,
                   loginCall, rest_vars>>

RefreshUserResolved(role) ==
    /\ refreshCall = "getMe"
    /\ refreshCall' = "idle"
    /\ user' = UserOf(role)
    /\ UNCHANGED <<token, isLoading, pathname, checkAuthPending, checking,
                   loginCall, rest_vars>>

RefreshUserRejected ==
    /\ refreshCall \in {"getMe", "getMe, no token"}
    /\ refreshCall' = "idle"
    /\ logout
    /\ UNCHANGED <<isLoading, checking, loginCall, rest_vars>>

\* The effect that sends an authenticated user away from a public path.
RedirectAuthenticated ==
    /\ ~isLoading
    /\ user # NoUser
    /\ pathname \in PUBLIC_PATHS
    /\ push(getDefaultPath(user.role))
    /\ UNCHANGED <<token, user, isLoading, checking, loginCall, refreshCall,
                   rest_vars>>

\* The user follows a link or types an address.
RouteChange(path) ==
    /\ path # pathname
    /\ push(path)
    /\ UNCHANGED <<token, user, isLoading, checking, loginCall, refreshCall,
                   rest_vars>>

NextAuth ==
    \/ CheckAuth
    \/ \E path \in Pathnames, role \in Roles : CheckAuthResolved(path, role)
    \/ \E path \in Pathnames : CheckAuthRejected(path)
    \/ Login
    \/ LoginResolved
    \/ LoginRejected
    \/ \E role \in Roles : LoginGetMeResolved(role)
    \/ Logout
    \/ RefreshUser
    \/ \E role \in Roles : RefreshUserResolved(role)
    \/ RefreshUserRejected
    \/ RedirectAuthenticated
    \/ \E path \in Pathnames : RouteChange(path)

\* The page is opened on any path, with or without a stored token.
InitAuthPage ==
    /\ InitIngestion
    /\ InitGame(FirstFood)
    /\ \E stored \in {NoToken, AccessToken}, path \in Pathnames :
           InitAuth(stored, path)

SpecAuth == InitAuthPage /\ [][NextAuth]_vars

\* C30: a non-null user implies that the ApiClient holds a token, and a
\* step that clears the token leaves the user null.
C30_UserHoldsToken ==
    [][/\ user' # NoUser => token' # NoToken
       /\ (token # NoToken /\ token' = NoToken) => user' = NoUser]_vars

====
